---- MODULE Spec2Model ----
(***************************************************************************)
(* Model of src/src/image_loader.py: the ImageLoader class (URL check,     *)
(* proxy rewriting, retrying size-capped download, disk cache with mtime   *)
(* freshness, decode, the thread-pool batch loader, and the cache          *)
(* maintenance calls clear_cache and get_cache_stats).                     *)
(*                                                                         *)
(* Strings are sequences of one-character strings, so that startswith and  *)
(* replace are computed on the characters.  Time is in seconds, sizes in   *)
(* bytes.  Thread 0 is the caller's thread; threads 1..max_workers are the *)
(* workers of the ThreadPoolExecutor of load_images_batch.                 *)
(***************************************************************************)
EXTENDS Integers, Sequences, FiniteSets, TLC

VARIABLES
    clock,          \* time.time(), in seconds
    cache,          \* the files of image_cache/: path -> NoFile or [blob, mtime]
    th,             \* per thread: position in load_image and the record of its current call
    max_retries,    \* self.max_retries
    proxy_enabled,  \* self.proxy_enabled
    ncalls,         \* number of load_image / load_images_batch calls made by the caller so far
    nticks,         \* number of idle periods so far
    prev,           \* summary of the caller's previous finished load_image call
    batch,          \* state of the caller's load_images_batch call
    maint,          \* state of the caller's clear_cache or get_cache_stats call
    src_size,       \* (width, height) of the picture that the image bytes decode to
    loader          \* the module global _image_loader and the get_image_loader calls

vars == <<clock, cache, th, max_retries, proxy_enabled, ncalls, nticks, prev, batch, maint,
          src_size, loader>>

----------------------------------------------------------------------------
(* Bounds of the model *)

MaxRetriesCfg == 3      \* max_retries ranges over 1..MaxRetriesCfg
MaxTicks == 1           \* idle periods between calls
MaxBatchLen == 2        \* length of the list given to load_images_batch
BatchRetries == 2       \* max_retries in the batch model
PoolBatchLen == 3       \* length of the list given to load_images_batch in the pool model

(* Program constants *)

MaxImageSizeMB == 10                              \* MAX_IMAGE_SIZE_MB default
ChunkSize == 8192                                 \* iter_content(chunk_size=8192)
max_cache_age == 24 * 3600                        \* self.max_cache_age
max_image_size == MaxImageSizeMB * 1024 * 1024    \* self.max_image_size
max_workers == 2                                  \* self.max_workers (IMAGE_MAX_WORKERS)

----------------------------------------------------------------------------
(* Strings *)

Pfx_http == <<"h","t","t","p">>
Pfx_http_s == <<"h","t","t","p",":","/","/">>
Pfx_https_s == <<"h","t","t","p","s",":","/","/">>

\* str.startswith
StartsWith(s, p) == Len(s) >= Len(p) /\ SubSeq(s, 1, Len(p)) = p

\* what the specification calls an http(s) URL
IsHttpUrl(s) == StartsWith(s, Pfx_http_s) \/ StartsWith(s, Pfx_https_s)

UrlA == Pfx_http_s \o <<"a">>            \* "http://a"
UrlB == Pfx_https_s \o <<"b">>           \* "https://b"
StrEmpty == <<>>                         \* ""
StrFtp == <<"f","t","p",":","/","/","a">>    \* "ftp://a"
StrHttpx == <<"h","t","t","p","x">>      \* "httpx"

Inputs == {UrlA, UrlB, StrEmpty, StrFtp, StrHttpx}

----------------------------------------------------------------------------
(* The cache directory *)

NoFile == [exists |-> FALSE]

\* hashlib.md5(url.encode()).hexdigest(): a digest of the characters of url,
\* taken to be collision free on Inputs
md5(s) == <<"md5">> \o s

\* ImageLoader._get_cache_path
_get_cache_path(url) == <<"image_cache/">> \o md5(url) \o <<".cache">>

CachePaths == {_get_cache_path(u) : u \in Inputs}

\* A cache file: kind is what Image.open makes of its bytes ("good" decodes to
\* an image of mode RGB, "RGBA" to an image of mode RGBA, "garbage" raises,
\* "partial" is a file opened for writing whose bytes are not all there yet, and
\* raises), len its size, mtime its os.path.getmtime
File(kind, len, mtime) == [exists |-> TRUE, kind |-> kind, len |-> len, mtime |-> mtime]

\* Image.open(BytesIO(bytes)) returns an image; img.mode of that image
Decodes(kind) == kind \in {"good", "RGBA"}
Mode(kind) == IF kind = "good" THEN "RGB" ELSE kind

\* load_image, lines 184-185: if img.mode in ('RGBA', 'LA', 'P'): img = img.convert('RGB')
Convert(mode) == IF mode \in {"RGBA", "LA", "P"} THEN "RGB" ELSE mode

\* (variant: an entry of exactly max_cache_age seconds still counts as fresh)
_is_cache_valid_inclusive(cache_path, files, now) ==
    files[cache_path].exists /\ now - files[cache_path].mtime <= max_cache_age

\* ImageLoader._is_cache_valid
_is_cache_valid(cache_path, files, now) ==
    IF ~files[cache_path].exists
    THEN FALSE
    ELSE LET file_age == now - files[cache_path].mtime
         IN  file_age < max_cache_age

----------------------------------------------------------------------------
(* Image.thumbnail *)

NoTarget == <<>>                    \* target_size = None
DefaultPicture == <<1600, 1200>>    \* the picture of the models that do not resize

Abs(n) == IF n < 0 THEN -n ELSE n

\* (variant: img.resize(target_size), which stretches the image to the target)
thumbnail_resize(size, target_size) == target_size

\* Image.thumbnail(target_size, LANCZOS) on an image of the given size: the size
\* the image has afterwards.  An image that fits is left alone; otherwise one
\* side is set to the target and the other to number = the proportional length,
\* rounded down or up, whichever gives the ratio nearer to width / height
\* (round_aspect: max(min(floor(number), ceil(number), key=key), 1)).
thumbnail(size, target_size) ==
    LET width == size[1]
        height == size[2]
        x == target_size[1]
        y == target_size[2]
        \* x = round_aspect(y * aspect, key=lambda n: abs(aspect - n / y))
        xfloor == (y * width) \div height
        xceil == IF (y * width) % height = 0 THEN xfloor ELSE xfloor + 1
        xkey(n) == Abs(width * y - n * height)
        xnew == IF xkey(xfloor) <= xkey(xceil) THEN xfloor ELSE xceil
        \* y = round_aspect(x / aspect, key=lambda n: 0 if n == 0 else abs(aspect - x / n))
        yfloor == (x * height) \div width
        yceil == IF (x * height) % width = 0 THEN yfloor ELSE yfloor + 1
        ynew == IF yfloor = 0 THEN yfloor
                ELSE IF Abs(width * yfloor - x * height) * yceil
                          <= Abs(width * yceil - x * height) * yfloor
                     THEN yfloor ELSE yceil
        atleast1(n) == IF n < 1 THEN 1 ELSE n
    IN  IF x >= width /\ y >= height THEN size
        ELSE IF x * height >= width * y THEN <<atleast1(xnew), y>>
        ELSE <<x, atleast1(ynew)>>

\* load_image, lines 162-163 and 187-188: if target_size: img.thumbnail(...)
Resized(size, target_size) ==
    IF target_size = NoTarget THEN size ELSE thumbnail(size, target_size)

----------------------------------------------------------------------------
(* The proxy rewriting *)

proxy_width == <<"8","0","0">>      \* IMAGE_PROXY_WIDTH default
proxy_quality == <<"8","0">>        \* IMAGE_PROXY_QUALITY default

\* str.replace(pat, ''): every occurrence of pat, left to right, is dropped
RECURSIVE StrRemove(_, _)
StrRemove(s, pat) ==
    IF Len(s) = 0 THEN s
    ELSE IF StartsWith(s, pat) THEN StrRemove(SubSeq(s, Len(pat) + 1, Len(s)), pat)
    ELSE <<Head(s)>> \o StrRemove(Tail(s), pat)

\* ImageLoader._apply_image_proxy
_apply_image_proxy(url, enabled) ==
    IF ~enabled \/ ~StartsWith(url, Pfx_http)
    THEN url
    ELSE LET no_scheme == StrRemove(StrRemove(url, Pfx_https_s), Pfx_http_s)
         IN  Pfx_https_s \o <<"images.weserv.nl/?url=">> \o no_scheme
                 \o <<"&w=">> \o proxy_width \o <<"&q=">> \o proxy_quality
                 \o <<"&output=webp">>

----------------------------------------------------------------------------
(* The transport: what one session.get(url, timeout, stream=True) can do *)

NoHeader == -1      \* no content-length header

FullChunks == max_image_size \div ChunkSize

\* A body is the sequence of chunks iter_content yields, written as runs of
\* n chunks of the same size (size <= ChunkSize; a size of 0 is an empty chunk)
Run(n, size) == [n |-> n, size |-> size]

BodySmall == <<Run(1, 100)>>
BodyEmpty == <<>>
BodyExact == <<Run(FullChunks, ChunkSize)>>              \* exactly max_image_size bytes
BodyOver1 == <<Run(FullChunks, ChunkSize), Run(1, 1)>>   \* max_image_size + 1 bytes
BodyOverMore == <<Run(FullChunks - 1, ChunkSize), Run(1, 0), Run(4, ChunkSize), Run(1, 5)>>
                                                         \* two full chunks and a short one follow the chunk that crosses the cap

RECURSIVE ChunkCount(_)
ChunkCount(body) == IF body = <<>> THEN 0 ELSE Head(body).n + ChunkCount(Tail(body))

Ok(clen, body, kind) == [kind |-> "ok", clen |-> clen, body |-> body, img |-> kind]

Responses ==
    { [kind |-> "timeout"],             \* requests.exceptions.Timeout
      [kind |-> "connerr"],             \* requests.exceptions.ConnectionError
      [kind |-> "http404"],             \* raise_for_status: HTTPError, status 404
      [kind |-> "http500"],             \* raise_for_status: HTTPError, another status
      [kind |-> "other"],               \* any other exception
      Ok(NoHeader, BodySmall, "good"),
      Ok(100, BodySmall, "good"),
      Ok(NoHeader, BodySmall, "garbage"),
      Ok(NoHeader, BodyEmpty, "good"),
      Ok(max_image_size, BodyExact, "good"),
      Ok(NoHeader, BodyOver1, "good"),
      Ok(100, BodyOverMore, "good"),
      Ok(max_image_size + 1, BodyOver1, "good"),
      Ok(max_image_size + 1, BodySmall, "good") }

\* (variant: the whole body is read and the size is looked at afterwards)
RECURSIVE iter_content_loop_late(_, _, _)
iter_content_loop_late(body, read, downloaded) ==
    IF body = <<>>
    THEN [over |-> downloaded > max_image_size, downloaded |-> downloaded, read |-> read]
    ELSE iter_content_loop_late(Tail(body), read + Head(body).n,
                                downloaded + Head(body).n * Head(body).size)

\* for chunk in response.iter_content(chunk_size=8192): ... (lines 110-116)
\* body: the runs not yet read, read: the chunks read so far, downloaded: the
\* bytes accumulated so far.  Within a run the chunks are read one by one: k is
\* the first chunk of the run with which downloaded exceeds the cap.
RECURSIVE iter_content_loop(_, _, _)
iter_content_loop(body, read, downloaded) ==
    IF body = <<>>
    THEN [over |-> FALSE, downloaded |-> downloaded, read |-> read]
    ELSE LET run == Head(body)
             crossing == {k \in 1..run.n :
                            /\ run.size # 0
                            /\ downloaded + k * run.size > max_image_size
                            /\ downloaded + (k - 1) * run.size <= max_image_size}
         IN  IF crossing # {}
             THEN LET k == CHOOSE k \in crossing : TRUE
                  IN  [over |-> TRUE, downloaded |-> downloaded + k * run.size, read |-> read + k]
             ELSE iter_content_loop(Tail(body), read + run.n, downloaded + run.n * run.size)

\* (variant: the content-length header is not looked at)
DeclaredTooLarge_ignored(content_length) == FALSE

\* (variant: a declared size equal to the cap is refused too)
DeclaredTooLarge_atcap(content_length) ==
    content_length # NoHeader /\ content_length >= max_image_size

\* The content-length check (lines 101-104)
DeclaredTooLarge(content_length) ==
    content_length # NoHeader /\ content_length > max_image_size

\* (variant: a 404 is retried like any other HTTP error)
Attempt_retry404(r) ==
    CASE r.kind = "ok" ->
             IF DeclaredTooLarge(r.clen)
             THEN [out |-> "none", read |-> 0, len |-> 0, counted |-> 0, why |-> "declared"]
             ELSE LET s == iter_content_loop(r.body, 0, 0)
                  IN  IF s.over
                      THEN [out |-> "none", read |-> s.read, len |-> 0,
                            counted |-> s.downloaded, why |-> "streamed"]
                      ELSE [out |-> "bytes", read |-> s.read, len |-> s.downloaded,
                            counted |-> s.downloaded, why |-> "ok"]
      [] OTHER ->
             [out |-> "retry", read |-> 0, len |-> 0, counted |-> 0, why |-> r.kind]

\* (variant: a response declared too large is retried)
Attempt_retrylarge(r) ==
    CASE r.kind = "ok" ->
             IF DeclaredTooLarge(r.clen)
             THEN [out |-> "retry", read |-> 0, len |-> 0, counted |-> 0, why |-> "declared"]
             ELSE LET s == iter_content_loop(r.body, 0, 0)
                  IN  IF s.over
                      THEN [out |-> "none", read |-> s.read, len |-> 0,
                            counted |-> s.downloaded, why |-> "streamed"]
                      ELSE [out |-> "bytes", read |-> s.read, len |-> s.downloaded,
                            counted |-> s.downloaded, why |-> "ok"]
      [] r.kind = "http404" ->
             [out |-> "none", read |-> 0, len |-> 0, counted |-> 0, why |-> "http404"]
      [] OTHER ->
             [out |-> "retry", read |-> 0, len |-> 0, counted |-> 0, why |-> r.kind]

\* (variant: every HTTP error status ends the call, as 404 does)
Attempt_nohttpretry(r) ==
    CASE r.kind = "ok" ->
             IF DeclaredTooLarge(r.clen)
             THEN [out |-> "none", read |-> 0, len |-> 0, counted |-> 0, why |-> "declared"]
             ELSE LET s == iter_content_loop(r.body, 0, 0)
                  IN  IF s.over
                      THEN [out |-> "none", read |-> s.read, len |-> 0,
                            counted |-> s.downloaded, why |-> "streamed"]
                      ELSE [out |-> "bytes", read |-> s.read, len |-> s.downloaded,
                            counted |-> s.downloaded, why |-> "ok"]
      [] r.kind \in {"http404", "http500"} ->
             [out |-> "none", read |-> 0, len |-> 0, counted |-> 0, why |-> r.kind]
      [] OTHER ->
             [out |-> "retry", read |-> 0, len |-> 0, counted |-> 0, why |-> r.kind]

\* One pass of the body of the retry loop (lines 91-138) on response r:
\*   "bytes"  return content.getvalue()      "none"  return None
\*   "retry"  an except clause that falls through to the back-off
\* read: chunks taken from iter_content, counted: the final value of downloaded
Attempt(r) ==
    CASE r.kind = "ok" ->
             IF DeclaredTooLarge(r.clen)
             THEN [out |-> "none", read |-> 0, len |-> 0, counted |-> 0, why |-> "declared"]
             ELSE LET s == iter_content_loop(r.body, 0, 0)
                  IN  IF s.over
                      THEN [out |-> "none", read |-> s.read, len |-> 0,
                            counted |-> s.downloaded, why |-> "streamed"]
                      ELSE [out |-> "bytes", read |-> s.read, len |-> s.downloaded,
                            counted |-> s.downloaded, why |-> "ok"]
      [] r.kind = "http404" ->
             [out |-> "none", read |-> 0, len |-> 0, counted |-> 0, why |-> "http404"]
      [] OTHER ->
             [out |-> "retry", read |-> 0, len |-> 0, counted |-> 0, why |-> r.kind]

----------------------------------------------------------------------------
(* Threads and the record of a load_image call *)

Caller == 0
Workers == 1..max_workers
Threads == {Caller} \cup Workers

NoData == [kind |-> "none", len |-> 0]

\* A thread that is not inside load_image
IdleThread ==
    [ pc        |-> "idle",     \* idle, check, read, request, sleep, store, write, done
      url       |-> <<>>,       \* the url argument
      attempt   |-> 0,          \* the loop variable of the retry loop
      data      |-> NoData,     \* image_data
      result    |-> "pending",  \* pending, image, none (return None), raise (an exception leaves load_image)
      mode      |-> "none",     \* img.mode of the image returned
      target_size |-> NoTarget, \* the target_size argument
      size      |-> <<0, 0>>,   \* img.size of the image returned
      timeouts  |-> <<>>,       \* the timeout of each session.get, in seconds
      requests  |-> 0,          \* session.get calls made by this call
      slept     |-> <<>>,       \* the time.sleep durations of this call, in order
      kinds     |-> {},         \* how the attempts of this call ended
      fetched   |-> <<>>,       \* the url given to session.get
      clen      |-> NoHeader,   \* the content-length of the last response
      read      |-> 0,          \* chunks taken from iter_content in the last attempt
      total     |-> 0,          \* chunks the last response had to give
      counted   |-> 0,          \* the value of downloaded when the last attempt ended
      faults    |-> {},         \* file operations of this call that the system refused
      writes    |-> 0,          \* times this call opened the cache file for writing
      removed   |-> 0,          \* cache files this call removed
      hit       |-> FALSE,      \* the image came from the cache file
      corrupt   |-> FALSE,      \* the cache file was fresh and did not decode
      blob      |-> NoFile,     \* the cache file as this call read it (f.read() of line 159)
      start     |-> NoFile,     \* the cache file of url when the call began
      started   |-> 0,          \* time.time() when the call began
      ended     |-> 0 ]         \* time.time() at the latest step of the call

\* load_image, lines 148-151: the url check
UrlAccepted(url) == url # <<>> /\ StartsWith(url, Pfx_http)

Enter(t, url) ==
    IF ~UrlAccepted(url)
    THEN [IdleThread EXCEPT !.pc = "done", !.url = url, !.result = "none",
                            !.started = clock, !.ended = clock]
    ELSE [IdleThread EXCEPT !.pc = "check", !.url = url, !.started = clock, !.ended = clock,
                            !.start = cache[_get_cache_path(url)]]

\* (variant: the cache file is looked up under the url that is fetched, the proxy url)
CheckCache_proxykey(t) ==
    /\ th[t].pc = "check"
    /\ LET cache_path == _get_cache_path(_apply_image_proxy(th[t].url, proxy_enabled))
           valid == cache_path \in DOMAIN cache /\ _is_cache_valid(cache_path, cache, clock)
       IN  th' = [th EXCEPT ![t].ended = clock,
                      ![t].pc = IF valid THEN "read" ELSE "request"]
    /\ UNCHANGED <<clock, cache, max_retries, proxy_enabled, ncalls, nticks, prev, batch, maint, src_size, loader>>

\* (variant: a cache file found too old is removed before the download)
CheckCache_evict(t) ==
    /\ th[t].pc = "check"
    /\ LET cache_path == _get_cache_path(th[t].url)
           valid == _is_cache_valid(cache_path, cache, clock)
       IN  /\ th' = [th EXCEPT ![t].ended = clock,
                         ![t].pc = IF valid THEN "read"
                                   ELSE IF max_retries > 0 THEN "request" ELSE "done",
                         ![t].result = IF ~valid /\ max_retries = 0 THEN "none" ELSE "pending"]
           /\ cache' = IF valid THEN cache ELSE [cache EXCEPT ![cache_path] = NoFile]
    /\ UNCHANGED <<clock, max_retries, proxy_enabled, ncalls, nticks, prev, batch, maint, src_size, loader>>

\* load_image, lines 153-156
CheckCache(t) ==
    /\ th[t].pc = "check"
    /\ LET cache_path == _get_cache_path(th[t].url)
       IN  th' = [th EXCEPT ![t].ended = clock,
                      ![t].pc =
                      IF _is_cache_valid(cache_path, cache, clock) THEN "read"
                      ELSE IF max_retries > 0 THEN "request" ELSE "done",
                      ![t].result =
                      IF ~_is_cache_valid(cache_path, cache, clock) /\ max_retries = 0
                      THEN "none" ELSE "pending"]
    /\ UNCHANGED <<clock, cache, max_retries, proxy_enabled, ncalls, nticks, prev, batch, maint, src_size, loader>>

\* (variant: a cache file that does not decode ends the call with None)
ReadCache_giveup(t, RM) ==
    /\ th[t].pc = "read"
    /\ LET f == cache[_get_cache_path(th[t].url)]
       IN  th' = [th EXCEPT ![t].pc = "done",
                           ![t].result = IF f.exists /\ Decodes(f.kind) THEN "image" ELSE "none",
                           ![t].mode = IF f.exists /\ Decodes(f.kind) THEN Mode(f.kind) ELSE "none",
                           ![t].hit = f.exists /\ Decodes(f.kind),
                           ![t].corrupt = ~(f.exists /\ Decodes(f.kind)),
                           ![t].ended = clock]
    /\ UNCHANGED <<clock, cache, max_retries, proxy_enabled, ncalls, nticks, prev, batch, maint, src_size, loader>>

\* (variant: a cache hit renews the file's timestamp, a sliding expiry)
ReadCache_touch(t, RM) ==
    /\ th[t].pc = "read"
    /\ LET cache_path == _get_cache_path(th[t].url)
           f == cache[cache_path]
       IN  IF f.exists /\ Decodes(f.kind)
           THEN /\ th' = [th EXCEPT ![t].pc = "done", ![t].result = "image", ![t].hit = TRUE,
                                    ![t].mode = Mode(f.kind),
                                    ![t].size = Resized(src_size, th[t].target_size),
                                    ![t].blob = f,
                                    ![t].ended = clock]
                /\ cache' = [cache EXCEPT ![cache_path].mtime = clock]
           ELSE /\ cache' = [cache EXCEPT ![cache_path] = NoFile]
                /\ th' = [th EXCEPT ![t].pc = IF max_retries > 0 THEN "request" ELSE "done",
                                    ![t].result = IF max_retries > 0 THEN "pending" ELSE "none",
                                    ![t].corrupt = TRUE,
                                    ![t].blob = f,
                                    ![t].removed = @ + 1,
                                    ![t].ended = clock]
    /\ UNCHANGED <<clock, max_retries, proxy_enabled, ncalls, nticks, prev, batch, maint, src_size, loader>>

\* load_image, lines 157-168: the cache file is read and decoded; a file that
\* does not decode is removed (rm_ok: os.remove succeeds, drawn from RM) and the
\* call goes on to the download
ReadCache(t, RM) ==
    /\ th[t].pc = "read"
    /\ LET cache_path == _get_cache_path(th[t].url)
           f == cache[cache_path]
       IN  IF f.exists /\ Decodes(f.kind)
           THEN /\ th' = [th EXCEPT ![t].pc = "done", ![t].result = "image", ![t].hit = TRUE,
                                    ![t].mode = Mode(f.kind),
                                    ![t].size = Resized(src_size, th[t].target_size),
                                    ![t].blob = f,
                                    ![t].ended = clock]
                /\ cache' = cache
           ELSE \E rm_ok \in RM :
                  IF f.exists /\ rm_ok
                  THEN /\ cache' = [cache EXCEPT ![cache_path] = NoFile]
                       /\ th' = [th EXCEPT ![t].pc = IF max_retries > 0 THEN "request" ELSE "done",
                                           ![t].result = IF max_retries > 0 THEN "pending" ELSE "none",
                                           ![t].corrupt = TRUE,
                                           ![t].blob = f,
                                           ![t].removed = @ + 1,
                                           ![t].ended = clock]
                  ELSE /\ cache' = cache
                       /\ th' = [th EXCEPT ![t].pc = "done", ![t].result = "raise",
                                           ![t].corrupt = f.exists,
                                           ![t].blob = f,
                                           ![t].faults = @ \cup {"remove"},
                                           ![t].ended = clock]
    /\ UNCHANGED <<clock, max_retries, proxy_enabled, ncalls, nticks, prev, batch, maint, src_size, loader>>

\* The transport's answers, each with what the loop body makes of it
Outcomes(rs) == {[r |-> r, a |-> Attempt(r)] : r \in rs}

AllOutcomes == Outcomes(Responses)

\* session.get(url, ...): for a url that is no http(s) url, requests raises
\* (MissingSchema, InvalidSchema) before anything is sent; otherwise the answer
\* is one of R
Transport(url, R) ==
    IF IsHttpUrl(url) THEN R ELSE Outcomes({[kind |-> "other"]})

self_timeout == 20      \* IMAGE_LOAD_TIMEOUT default
TimeoutStep == 5

\* (variant: every attempt has the timeout of the first)
timeout_fixed(attempt) == self_timeout

\* _download_image_with_retry, line 95: timeout = self.timeout + (attempt * 5)
timeout(attempt) == self_timeout + (attempt * TimeoutStep)

\* _download_image_with_retry, lines 85-139: one pass of the retry loop, on an
\* answer of the transport drawn from R
Request(t, R) ==
    /\ th[t].pc = "request"
    /\ \E ra \in Transport(_apply_image_proxy(th[t].url, proxy_enabled), R) :
         LET r == ra.r
             a == ra.a
             me == [th[t] EXCEPT !.requests = @ + 1,
                                 !.timeouts = Append(@, timeout(th[t].attempt)),
                                 !.ended = clock,
                                 !.kinds = @ \cup {a.why},
                                 !.fetched = _apply_image_proxy(th[t].url, proxy_enabled),
                                 !.read = a.read,
                                 !.counted = a.counted,
                                 !.clen = IF r.kind = "ok" THEN r.clen ELSE NoHeader,
                                 !.total = IF r.kind = "ok" THEN ChunkCount(r.body) ELSE 0]
         IN  th' = [th EXCEPT ![t] =
                 CASE a.out = "bytes" ->
                          [me EXCEPT !.pc = "store", !.data = [kind |-> r.img, len |-> a.len]]
                   [] a.out = "none" ->
                          [me EXCEPT !.pc = "done", !.result = "none"]
                   [] OTHER ->
                          IF me.attempt < max_retries - 1
                          THEN [me EXCEPT !.pc = "sleep"]
                          ELSE [me EXCEPT !.pc = "done", !.result = "none", !.attempt = @ + 1]]
    /\ UNCHANGED <<clock, cache, max_retries, proxy_enabled, ncalls, nticks, prev, batch, maint, src_size, loader>>

\* (variant: a linear back-off)
wait_time_linear(attempt) == 2 * attempt

\* _download_image_with_retry, lines 140-143: the back-off
wait_time(attempt) == 2 ^ attempt

Sleep(t) ==
    /\ th[t].pc = "sleep"
    /\ clock' = clock + wait_time(th[t].attempt)
    /\ th' = [th EXCEPT ![t].pc = "request",
                        ![t].slept = Append(@, wait_time(th[t].attempt)),
                        ![t].attempt = @ + 1,
                        ![t].ended = clock']
    /\ UNCHANGED <<cache, max_retries, proxy_enabled, ncalls, nticks, prev, batch, maint, src_size, loader>>

\* What open(cache_path, 'wb') ("ok", "open_fail") and f.write ("ok", "write_fail") can do
WriteOutcomes == {"ok", "open_fail", "write_fail"}

\* load_image, lines 171-177: no bytes, return None; otherwise the cache file is
\* opened with mode 'wb', which creates it or truncates it in place.  w is what
\* open does: "ok" or "open_fail" (the file is left as it was, and the except
\* clause of lines 193-198 runs), drawn from W; rm_ok: os.remove succeeds
OpenCache(t, W, RM) ==
    /\ th[t].pc = "store"
    /\ LET cache_path == _get_cache_path(th[t].url)
           image_data == th[t].data
       IN  IF image_data.len = 0
           THEN /\ th' = [th EXCEPT ![t].pc = "done", ![t].result = "none", ![t].ended = clock]
                /\ cache' = cache
           ELSE \E w \in W \ {"write_fail"}, rm_ok \in RM :
                  IF w = "ok"
                  THEN /\ cache' = [cache EXCEPT ![cache_path] = File("partial", 0, clock)]
                       /\ th' = [th EXCEPT ![t].pc = "write", ![t].writes = @ + 1,
                                           ![t].ended = clock]
                  ELSE LET me == [th[t] EXCEPT !.pc = "done", !.ended = clock,
                                               !.faults = @ \cup {w}]
                       IN  IF ~cache[cache_path].exists
                           THEN /\ cache' = cache
                                /\ th' = [th EXCEPT ![t] = [me EXCEPT !.result = "none"]]
                           ELSE IF rm_ok
                           THEN /\ cache' = [cache EXCEPT ![cache_path] = NoFile]
                                /\ th' = [th EXCEPT ![t] = [me EXCEPT !.result = "none",
                                                                      !.removed = @ + 1]]
                           ELSE /\ cache' = cache
                                /\ th' = [th EXCEPT ![t] = [me EXCEPT !.result = "raise",
                                                                      !.faults = @ \cup {"remove"}]]
    /\ UNCHANGED <<clock, max_retries, proxy_enabled, ncalls, nticks, prev, batch, maint, src_size, loader>>

\* (variant: the downloaded bytes are decoded and never written to the cache)
Store_nocache(t, W, RM) ==
    /\ th[t].pc = "write"
    /\ th' = [th EXCEPT ![t].pc = "done",
                        ![t].ended = clock,
                        ![t].result = IF Decodes(th[t].data.kind) THEN "image" ELSE "none",
                        ![t].mode = IF Decodes(th[t].data.kind)
                                    THEN Convert(Mode(th[t].data.kind)) ELSE "none"]
    /\ UNCHANGED <<clock, cache, max_retries, proxy_enabled, ncalls, nticks, prev, batch, maint, src_size, loader>>

\* load_image, lines 178-198: the bytes are written to the open file, the file is
\* closed, and the bytes are decoded.  w is what f.write does: "ok" or
\* "write_fail" (the file stays partly written), drawn from W; a file that was
\* removed while it was open stays removed (the bytes go to the unlinked file);
\* rm_ok: os.remove succeeds, drawn from RM
Store(t, W, RM) ==
    /\ th[t].pc = "write"
    /\ LET cache_path == _get_cache_path(th[t].url)
           image_data == th[t].data
       IN  \E w \in W \ {"open_fail"}, rm_ok \in RM :
             LET written == IF ~cache[cache_path].exists THEN NoFile
                            ELSE IF w = "ok"
                            THEN File(image_data.kind, image_data.len, clock)
                            ELSE File("partial", 0, clock)
                 raised == w # "ok" \/ ~Decodes(image_data.kind)
                 me == [th[t] EXCEPT !.pc = "done",
                                     !.ended = clock,
                                     !.faults = IF w = "ok" THEN @ ELSE @ \cup {w}]
             IN  IF ~raised
                 THEN /\ cache' = [cache EXCEPT ![cache_path] = written]
                      /\ th' = [th EXCEPT ![t] = [me EXCEPT !.result = "image",
                                                            !.mode = Convert(Mode(image_data.kind)),
                                                            !.size = Resized(src_size, th[t].target_size)]]
                 ELSE IF ~written.exists
                 THEN /\ cache' = cache
                      /\ th' = [th EXCEPT ![t] = [me EXCEPT !.result = "none"]]
                 ELSE IF rm_ok
                 THEN /\ cache' = [cache EXCEPT ![cache_path] = NoFile]
                      /\ th' = [th EXCEPT ![t] = [me EXCEPT !.result = "none", !.removed = @ + 1]]
                 ELSE /\ cache' = [cache EXCEPT ![cache_path] = written]
                      /\ th' = [th EXCEPT ![t] = [me EXCEPT !.result = "raise",
                                                            !.faults = @ \cup {"remove"}]]
    /\ UNCHANGED <<clock, max_retries, proxy_enabled, ncalls, nticks, prev, batch, maint, src_size, loader>>

----------------------------------------------------------------------------
(* The caller *)

\* The caller is not inside load_images_batch
NoBatch ==
    [ pc      |-> "none",   \* none, running, returned
      input   |-> <<>>,     \* image_urls
      futures |-> <<>>,     \* the futures of future_to_url, in submission order
      results |-> <<>>,     \* the dict results
      raised  |-> FALSE,    \* an exception has left load_images_batch
      target_size |-> NoTarget, \* the target_size argument
      start_time |-> 0,     \* start_time
      preload |-> FALSE,    \* load_images_batch was called by preload_images
      summaries |-> <<>> ]  \* the summaries given to preload_images

\* What is kept of the caller's previous load_image call
RECURSIVE SumSeq(_)
SumSeq(s) == IF s = <<>> THEN 0 ELSE Head(s) + SumSeq(Tail(s))

\* load_image, lines 177-181: the call downloaded bytes, wrote them to the cache
\* file, and Image.open raised on them
Undecodable(me) ==
    /\ me.data.len > 0 /\ ~Decodes(me.data.kind)
    /\ me.faults \cap {"open_fail", "write_fail"} = {}

Summary(me) ==
    [ url |-> me.url, result |-> me.result, mode |-> me.mode, hit |-> me.hit,
      requests |-> me.requests, writes |-> me.writes,
      fetched |-> me.fetched, ended |-> me.ended, undecodable |-> Undecodable(me) ]

\* The caller calls load_image(url, target_size), target_size drawn from Targets
LoadImage(Targets) ==
    /\ th[Caller].pc = "idle"
    /\ batch.pc = "none"
    /\ \E url \in Inputs, target_size \in Targets :
         th' = [th EXCEPT ![Caller] = [Enter(Caller, url) EXCEPT !.target_size = target_size]]
    /\ ncalls' = ncalls + 1
    /\ UNCHANGED <<clock, cache, max_retries, proxy_enabled, nticks, prev, batch, maint, src_size, loader>>

\* load_image has returned and the caller calls it a second time
LoadImageAgain ==
    /\ th[Caller].pc = "done"
    /\ batch.pc = "none"
    /\ ncalls = 1
    /\ \E url \in Inputs :
         th' = [th EXCEPT ![Caller] = Enter(Caller, url)]
    /\ prev' = Summary(th[Caller])
    /\ ncalls' = ncalls + 1
    /\ UNCHANGED <<clock, cache, max_retries, proxy_enabled, nticks, batch, maint, src_size, loader>>

\* Time passes while the loader is not in use: before the caller's call
\* (at = "idle") or after it has returned (at = "done")
TickDeltas == {max_cache_age - 1, max_cache_age}

Tick(at) ==
    /\ th[Caller].pc = at
    /\ batch.pc # "running"
    /\ nticks < MaxTicks
    /\ \E d \in TickDeltas : clock' = clock + d
    /\ nticks' = nticks + 1
    /\ UNCHANGED <<cache, th, max_retries, proxy_enabled, ncalls, prev, batch, maint, src_size, loader>>

\* The caller is not inside clear_cache or get_cache_stats
NoneValue == [type |-> "NoneType"]
Pending == [type |-> "pending"]
Raised == [type |-> "exception"]

NoMaint ==
    [ pc            |-> "none",     \* none, sweep, stats, returned
      op            |-> "none",     \* clear_cache, get_cache_stats
      max_age_hours |-> 0,          \* the argument of clear_cache
      current_time  |-> 0,          \* current_time
      todo          |-> {},         \* the files of os.listdir not yet visited
      cleared_count |-> 0,          \* cleared_count
      failed        |-> {},         \* the files whose os.remove raised
      file_count    |-> 0,          \* file_count
      total_size    |-> 0,          \* total_size
      ret           |-> Pending,    \* the value returned
      before        |-> <<>> ]      \* the cache directory when the call began

\* os.listdir(self.cache_dir), the names that end with .cache
ListDir == {p \in CachePaths : cache[p].exists}

\* clear_cache, lines 255-262
ClearCache(Hours) ==
    /\ maint.pc = "none"
    /\ th[Caller].pc = "idle"
    /\ batch.pc = "none"
    /\ \E max_age_hours \in Hours :
         maint' = [NoMaint EXCEPT !.pc = "sweep", !.op = "clear_cache",
                                  !.max_age_hours = max_age_hours,
                                  !.current_time = clock,
                                  !.todo = ListDir,
                                  !.before = cache]
    /\ ncalls' = ncalls + 1
    /\ UNCHANGED <<clock, cache, th, max_retries, proxy_enabled, nticks, prev, batch, src_size, loader>>

\* (variant: an os.remove that raises ends the sweep with that exception)
SweepFile_abort(RM) ==
    /\ maint.pc = "sweep"
    /\ \E file_path \in maint.todo, rm_ok \in RM :
         LET max_age_seconds == maint.max_age_hours * 3600
             f == cache[file_path]
             go == [maint EXCEPT !.todo = @ \ {file_path}]
         IN  IF f.exists /\ maint.current_time - f.mtime > max_age_seconds
             THEN IF rm_ok
                  THEN /\ cache' = [cache EXCEPT ![file_path] = NoFile]
                       /\ maint' = [go EXCEPT !.cleared_count = @ + 1]
                  ELSE /\ cache' = cache
                       /\ maint' = [go EXCEPT !.pc = "returned", !.ret = Raised,
                                               !.failed = @ \cup {file_path}]
             ELSE /\ cache' = cache
                  /\ maint' = go
    /\ UNCHANGED <<clock, th, max_retries, proxy_enabled, ncalls, nticks, prev, batch, src_size, loader>>

\* (variant: every file of the listing is removed, whatever its age)
SweepFile_all(RM) ==
    /\ maint.pc = "sweep"
    /\ \E file_path \in maint.todo :
         /\ cache' = [cache EXCEPT ![file_path] = NoFile]
         /\ maint' = [maint EXCEPT !.todo = @ \ {file_path}, !.cleared_count = @ + 1]
    /\ UNCHANGED <<clock, th, max_retries, proxy_enabled, ncalls, nticks, prev, batch, src_size, loader>>

\* clear_cache, lines 264-272: one pass of the loop over os.listdir, in the
\* order the system lists the files.  A file that is gone makes os.path.getmtime
\* raise, outside the try; rm_ok: os.remove succeeds, drawn from RM
SweepFile(RM) ==
    /\ maint.pc = "sweep"
    /\ \E file_path \in maint.todo, rm_ok \in RM :
         LET max_age_seconds == maint.max_age_hours * 3600
             f == cache[file_path]
             go == [maint EXCEPT !.todo = @ \ {file_path}]
         IN  IF ~f.exists
             THEN /\ cache' = cache
                  /\ maint' = [go EXCEPT !.pc = "returned", !.ret = Raised]
             ELSE IF maint.current_time - f.mtime > max_age_seconds
             THEN IF rm_ok
                  THEN /\ cache' = [cache EXCEPT ![file_path] = NoFile]
                       /\ maint' = [go EXCEPT !.cleared_count = @ + 1]
                  ELSE /\ cache' = cache
                       /\ maint' = [go EXCEPT !.failed = @ \cup {file_path}]
             ELSE /\ cache' = cache
                  /\ maint' = go
    /\ UNCHANGED <<clock, th, max_retries, proxy_enabled, ncalls, nticks, prev, batch, src_size, loader>>

\* clear_cache, lines 274-275: the count is logged; the function ends without a
\* return statement
ClearReturn ==
    /\ maint.pc = "sweep"
    /\ maint.todo = {}
    /\ maint' = [maint EXCEPT !.pc = "returned", !.ret = NoneValue]
    /\ UNCHANGED <<clock, cache, th, max_retries, proxy_enabled, ncalls, nticks, prev, batch, src_size, loader>>

\* round(x, 2) of x = n / d, in hundredths: the nearest, ties to the even one
\* (the whole part of x is set apart so that the products stay small)
RoundHundredths(n, d) ==
    LET whole == n \div d
        q == (100 * (n % d)) \div d
        r == (100 * (n % d)) % d
        frac == IF 2 * r < d THEN q
                ELSE IF 2 * r > d THEN q + 1
                ELSE IF q % 2 = 0 THEN q ELSE q + 1
    IN  100 * whole + frac

\* get_cache_stats, lines 277-283
GetCacheStats ==
    /\ maint.pc = "none"
    /\ th[Caller].pc = "idle"
    /\ batch.pc = "none"
    /\ maint' = [NoMaint EXCEPT !.pc = "stats", !.op = "get_cache_stats",
                                !.todo = ListDir,
                                !.before = cache]
    /\ ncalls' = ncalls + 1
    /\ UNCHANGED <<clock, cache, th, max_retries, proxy_enabled, nticks, prev, batch, src_size, loader>>

\* get_cache_stats, lines 285-289: one pass of the loop over os.listdir; a file
\* that is gone makes os.path.getsize raise
StatFile ==
    /\ maint.pc = "stats"
    /\ \E file_path \in maint.todo :
         LET f == cache[file_path]
             go == [maint EXCEPT !.todo = @ \ {file_path}, !.file_count = @ + 1]
         IN  maint' = IF ~f.exists
                      THEN [go EXCEPT !.pc = "returned", !.ret = Raised]
                      ELSE [go EXCEPT !.total_size = @ + f.len]
    /\ UNCHANGED <<clock, cache, th, max_retries, proxy_enabled, ncalls, nticks, prev, batch, src_size, loader>>

\* get_cache_stats, lines 291-294: size_mb is kept in hundredths of a megabyte
StatsReturn ==
    /\ maint.pc = "stats"
    /\ maint.todo = {}
    /\ maint' = [maint EXCEPT !.pc = "returned",
                              !.ret = [type |-> "dict", files |-> maint.file_count,
                                       size_mb |-> RoundHundredths(maint.total_size, 1024 * 1024)]]
    /\ UNCHANGED <<clock, cache, th, max_retries, proxy_enabled, ncalls, nticks, prev, batch, src_size, loader>>

\* The process is started again with the other IMAGE_PROXY_ENABLED (line 29),
\* between two calls; image_cache/ is as the first run left it
SetProxy ==
    /\ th[Caller].pc = "done"
    /\ batch.pc = "none"
    /\ ncalls = 1
    /\ proxy_enabled' = ~proxy_enabled
    /\ UNCHANGED <<clock, cache, th, max_retries, ncalls, nticks, prev, batch, maint, src_size, loader>>

----------------------------------------------------------------------------
(* get_image_loader *)

MaxGets == 2            \* get_image_loader calls of one thread

\* The module after import: _image_loader = None (line 297), written 0; the
\* ImageLoader instances are numbered 1, 2, ... in the order of construction
NoLoader ==
    [ global   |-> 0,                               \* _image_loader
      made     |-> 0,                               \* ImageLoader instances constructed
      pc       |-> [t \in Threads |-> "idle"],      \* idle, test, construct, assign, return
      new      |-> [t \in Threads |-> 0],           \* the instance the thread has constructed
      gets     |-> [t \in Threads |-> 0],           \* calls the thread has made
      returned |-> {} ]                             \* the instances returned so far

\* A thread calls get_image_loader()
GetCall(t) ==
    /\ loader.pc[t] = "idle"
    /\ loader.gets[t] < MaxGets
    /\ loader' = [loader EXCEPT !.pc[t] = "test", !.gets[t] = @ + 1]
    /\ UNCHANGED <<clock, cache, th, max_retries, proxy_enabled, ncalls, nticks, prev, batch, maint, src_size>>

\* get_image_loader, line 302: if _image_loader is None
GetTest(t) ==
    /\ loader.pc[t] = "test"
    /\ loader' = [loader EXCEPT !.pc[t] = IF loader.global = 0 THEN "construct" ELSE "return"]
    /\ UNCHANGED <<clock, cache, th, max_retries, proxy_enabled, ncalls, nticks, prev, batch, maint, src_size>>

\* get_image_loader, line 303, right-hand side: ImageLoader()
GetConstruct(t) ==
    /\ loader.pc[t] = "construct"
    /\ loader' = [loader EXCEPT !.pc[t] = "assign", !.made = @ + 1, !.new[t] = loader.made + 1]
    /\ UNCHANGED <<clock, cache, th, max_retries, proxy_enabled, ncalls, nticks, prev, batch, maint, src_size>>

\* get_image_loader, line 303, the assignment: _image_loader = <the new instance>
GetAssign(t) ==
    /\ loader.pc[t] = "assign"
    /\ loader' = [loader EXCEPT !.pc[t] = "return", !.global = loader.new[t]]
    /\ UNCHANGED <<clock, cache, th, max_retries, proxy_enabled, ncalls, nticks, prev, batch, maint, src_size>>

\* get_image_loader, line 304: return _image_loader
GetReturn(t) ==
    /\ loader.pc[t] = "return"
    /\ loader' = [loader EXCEPT !.pc[t] = "idle", !.returned = @ \cup {loader.global}]
    /\ UNCHANGED <<clock, cache, th, max_retries, proxy_enabled, ncalls, nticks, prev, batch, maint, src_size>>

----------------------------------------------------------------------------

\* Files an earlier run of the process may have left in image_cache/
LeftOver == {NoFile, File("good", 100, 0), File("garbage", 100, 0)}

Init ==
    /\ clock = 0
    /\ cache \in {c \in [CachePaths -> LeftOver] :
                    \A u \in Inputs : ~IsHttpUrl(u) => c[_get_cache_path(u)] = NoFile}
    /\ th = [t \in Threads |-> IdleThread]
    /\ max_retries \in 1..MaxRetriesCfg
    /\ proxy_enabled \in BOOLEAN
    /\ ncalls = 0
    /\ nticks = 0
    /\ prev = Summary(IdleThread)
    /\ batch = NoBatch
    /\ maint = NoMaint
    /\ src_size = DefaultPicture
    /\ loader = NoLoader

Next ==
    \/ LoadImage({NoTarget})
    \/ Tick("idle")
    \/ CheckCache(Caller)
    \/ ReadCache(Caller, BOOLEAN)
    \/ Request(Caller, AllOutcomes)
    \/ Sleep(Caller)
    \/ OpenCache(Caller, WriteOutcomes, BOOLEAN)
    \/ Store(Caller, WriteOutcomes, BOOLEAN)

Spec == Init /\ [][Next]_vars

----------------------------------------------------------------------------
(* load_images_batch *)

\* [url for url in image_urls if url and url.startswith('http')] (line 208)
RECURSIVE valid_urls(_)
valid_urls(image_urls) ==
    IF image_urls = <<>> THEN <<>>
    ELSE IF UrlAccepted(Head(image_urls))
         THEN <<Head(image_urls)>> \o valid_urls(Tail(image_urls))
         ELSE valid_urls(Tail(image_urls))

\* executor.submit(self.load_image, url, target_size): a future, not yet started
Future(url) == [url |-> url, state |-> "pending", worker |-> 0, outcome |-> "pending",
                collected |-> FALSE]

\* The lists given to load_images_batch
RECURSIVE SeqsUpTo(_, _)
SeqsUpTo(S, n) ==
    IF n = 0 THEN {<<>>}
    ELSE LET shorter == SeqsUpTo(S, n - 1)
         IN  shorter \cup {Append(q, x) : q \in shorter, x \in S}

BatchInputs == SeqsUpTo(Inputs, MaxBatchLen)

\* load_images_batch, lines 200-222: the check of the list, the filter, the
\* submission of one future per valid url
Submit(image_urls, target_size) ==
    LET valid == valid_urls(image_urls)
    IN  IF image_urls = <<>> \/ valid = <<>>
        THEN [NoBatch EXCEPT !.pc = "returned", !.input = image_urls,
                             !.target_size = target_size]
        ELSE [NoBatch EXCEPT !.pc = "running", !.input = image_urls,
                             !.target_size = target_size, !.start_time = clock,
                             !.futures = [i \in 1..Len(valid) |-> Future(valid[i])]]

\* The caller calls load_images_batch(image_urls)
LoadImagesBatch(Lists) ==
    /\ th[Caller].pc = "idle"
    /\ batch.pc = "none"
    /\ \E image_urls \in Lists : batch' = Submit(image_urls, NoTarget)
    /\ ncalls' = ncalls + 1
    /\ UNCHANGED <<clock, cache, th, max_retries, proxy_enabled, nticks, prev, maint, src_size, loader>>

\* (variant: a future is started whether or not the worker is free)
Take_unbounded(t) ==
    /\ t \in Workers
    /\ batch.pc = "running"
    /\ \E i \in 1..Len(batch.futures) :
         /\ batch.futures[i].state = "pending"
         /\ \A j \in 1..(i - 1) : batch.futures[j].state # "pending"
         /\ batch' = [batch EXCEPT !.futures[i].state = "running", !.futures[i].worker = t]
         /\ th' = [th EXCEPT ![t] = [Enter(t, batch.futures[i].url)
                                        EXCEPT !.target_size = batch.target_size]]
    /\ UNCHANGED <<clock, cache, max_retries, proxy_enabled, ncalls, nticks, prev, maint, src_size, loader>>

\* (variant: one pipeline at a time, a worker starts only when no other is busy)
Take_serial(t) ==
    /\ t \in Workers
    /\ \A u \in Workers : th[u].pc = "idle"
    /\ batch.pc = "running"
    /\ \E i \in 1..Len(batch.futures) :
         /\ batch.futures[i].state = "pending"
         /\ \A j \in 1..(i - 1) : batch.futures[j].state # "pending"
         /\ batch' = [batch EXCEPT !.futures[i].state = "running", !.futures[i].worker = t]
         /\ th' = [th EXCEPT ![t] = [Enter(t, batch.futures[i].url)
                                        EXCEPT !.target_size = batch.target_size]]
    /\ UNCHANGED <<clock, cache, max_retries, proxy_enabled, ncalls, nticks, prev, maint, src_size, loader>>

\* ThreadPoolExecutor(max_workers=self.max_workers): a worker thread of the pool
\* that is free takes the oldest future of the queue and enters load_image
Take(t) ==
    /\ t \in Workers
    /\ th[t].pc = "idle"
    /\ batch.pc = "running"
    /\ \E i \in 1..Len(batch.futures) :
         /\ batch.futures[i].state = "pending"
         /\ \A j \in 1..(i - 1) : batch.futures[j].state # "pending"
         /\ batch' = [batch EXCEPT !.futures[i].state = "running", !.futures[i].worker = t]
         /\ th' = [th EXCEPT ![t] = [Enter(t, batch.futures[i].url)
                                        EXCEPT !.target_size = batch.target_size]]
    /\ UNCHANGED <<clock, cache, max_retries, proxy_enabled, ncalls, nticks, prev, maint, src_size, loader>>

\* load_image has ended in worker t: the future holds its result or its exception
Finish(t) ==
    /\ t \in Workers
    /\ th[t].pc = "done"
    /\ \E i \in 1..Len(batch.futures) :
         /\ batch.futures[i].state = "running"
         /\ batch.futures[i].worker = t
         /\ batch' = [batch EXCEPT !.futures[i].state = "done",
                                   !.futures[i].outcome = th[t].result]
    /\ th' = [th EXCEPT ![t] = IdleThread]
    /\ UNCHANGED <<clock, cache, max_retries, proxy_enabled, ncalls, nticks, prev, maint, src_size, loader>>

\* (variant: future.result() is called outside any try)
Guarded_notry(outcome) ==
    [value |-> outcome, escapes |-> outcome = "raise"]

\* load_images_batch, lines 227-232: try: results[url] = future.result()
\* except Exception: results[url] = None
Guarded(outcome) ==
    [value |-> IF outcome = "raise" THEN "none" ELSE outcome, escapes |-> FALSE]

\* load_images_batch, lines 225-232: as_completed hands over a finished future
Collect ==
    /\ batch.pc = "running"
    /\ \E i \in 1..Len(batch.futures) :
         /\ batch.futures[i].state = "done"
         /\ ~batch.futures[i].collected
         /\ LET url == batch.futures[i].url
                g == Guarded(batch.futures[i].outcome)
            IN  IF g.escapes
                THEN batch' = [batch EXCEPT !.futures[i].collected = TRUE,
                                            !.pc = "returned", !.raised = TRUE]
                ELSE batch' = [batch EXCEPT
                                 !.futures[i].collected = TRUE,
                                 !.results = [u \in DOMAIN batch.results \cup {url} |->
                                                IF u = url THEN g.value ELSE batch.results[u]]]
    /\ UNCHANGED <<clock, cache, th, max_retries, proxy_enabled, ncalls, nticks, prev, maint, src_size, loader>>

\* (variant: results is returned from inside the loop, after the first future)
BatchReturn_early ==
    /\ batch.pc = "running"
    /\ \E i \in 1..Len(batch.futures) : batch.futures[i].collected
    /\ batch' = [batch EXCEPT !.pc = "returned"]
    /\ UNCHANGED <<clock, cache, th, max_retries, proxy_enabled, ncalls, nticks, prev, maint, src_size, loader>>

\* (variant: the loop waits for one result per string of image_urls)
BatchReturn_waitall ==
    /\ batch.pc = "running"
    /\ Cardinality({i \in 1..Len(batch.futures) : batch.futures[i].collected}) = Len(batch.input)
    /\ \A t \in Workers : th[t].pc = "idle"
    /\ batch' = [batch EXCEPT !.pc = "returned"]
    /\ UNCHANGED <<clock, cache, th, max_retries, proxy_enabled, ncalls, nticks, prev, maint, src_size, loader>>

\* load_images_batch, lines 225-239: as_completed is exhausted, the executor is
\* shut down (it waits for its workers) and results is returned
BatchReturn ==
    /\ batch.pc = "running"
    /\ \A i \in 1..Len(batch.futures) : batch.futures[i].collected
    /\ \A t \in Workers : th[t].pc = "idle"
    /\ batch' = [batch EXCEPT !.pc = "returned"]
    /\ UNCHANGED <<clock, cache, th, max_retries, proxy_enabled, ncalls, nticks, prev, maint, src_size, loader>>

\* The answers of the transport in the batch model
BatchResponses ==
    { [kind |-> "timeout"],
      [kind |-> "http404"],
      Ok(NoHeader, BodySmall, "good"),
      Ok(NoHeader, BodySmall, "garbage") }

BatchOutcomes == Outcomes(BatchResponses)

InitBatch ==
    /\ clock = 0
    /\ cache \in {c \in [CachePaths -> LeftOver] :
                    \A u \in Inputs : ~IsHttpUrl(u) => c[_get_cache_path(u)] = NoFile}
    /\ th = [t \in Threads |-> IdleThread]
    /\ max_retries = BatchRetries
    /\ proxy_enabled = TRUE
    /\ ncalls = 0
    /\ nticks = 0
    /\ prev = Summary(IdleThread)
    /\ batch = NoBatch
    /\ maint = NoMaint
    /\ src_size = DefaultPicture
    /\ loader = NoLoader

NextBatch ==
    \/ LoadImagesBatch(BatchInputs)
    \/ \E t \in Workers :
         \/ Take(t)
         \/ CheckCache(t)
         \/ ReadCache(t, BOOLEAN)
         \/ Request(t, BatchOutcomes)
         \/ Sleep(t)
         \/ OpenCache(t, WriteOutcomes, BOOLEAN)
         \/ Store(t, WriteOutcomes, BOOLEAN)
         \/ Finish(t)
    \/ Collect
    \/ BatchReturn

SpecBatch == InitBatch /\ [][NextBatch]_vars

----------------------------------------------------------------------------
(* load_images_batch on more urls than the pool has workers: lists that name  *)
(* one url several times, an empty cache directory, a transport that delivers *)
(* the image, a file system that refuses nothing.                             *)

PoolUrls == {UrlA}

PoolInputs == SeqsUpTo(PoolUrls, PoolBatchLen)

PoolResponses ==
    { Ok(NoHeader, BodySmall, "good") }

PoolOutcomes == Outcomes(PoolResponses)

InitPool ==
    /\ clock = 0
    /\ cache = [p \in CachePaths |-> NoFile]
    /\ th = [t \in Threads |-> IdleThread]
    /\ max_retries = 1
    /\ proxy_enabled = TRUE
    /\ ncalls = 0
    /\ nticks = 0
    /\ prev = Summary(IdleThread)
    /\ batch = NoBatch
    /\ maint = NoMaint
    /\ src_size = DefaultPicture
    /\ loader = NoLoader

NextPool ==
    \/ LoadImagesBatch(PoolInputs)
    \/ \E t \in Workers :
         \/ Take(t)
         \/ CheckCache(t)
         \/ ReadCache(t, {TRUE})
         \/ Request(t, PoolOutcomes)
         \/ OpenCache(t, {"ok"}, {TRUE})
         \/ Store(t, {"ok"}, {TRUE})
         \/ Finish(t)
    \/ Collect
    \/ BatchReturn

SpecPool == InitPool /\ [][NextPool]_vars

----------------------------------------------------------------------------
(* Cache maintenance: clear_cache and get_cache_stats on a directory that      *)
(* earlier runs have filled.                                                   *)

DefaultMaxAgeHours == 72                 \* clear_cache(max_age_hours=72)

SweepHours == {0, 24, DefaultMaxAgeHours}

\* The clock when the maintenance call is made, and the files it finds: of every
\* age at and just past the limits the calls are made with
MaintStart == 4 * max_cache_age

MaintAges == {h * 3600 : h \in SweepHours} \cup {h * 3600 + 1 : h \in SweepHours}

MaintFiles ==
    {NoFile} \cup {File("good", 100, MaintStart - a) : a \in MaintAges}
             \cup {File("good", max_image_size, MaintStart - DefaultMaxAgeHours * 3600 - 1)}

InitMaint ==
    /\ clock = MaintStart
    /\ cache \in {c \in [CachePaths -> MaintFiles] :
                    \A u \in Inputs : ~UrlAccepted(u) => c[_get_cache_path(u)] = NoFile}
    /\ th = [t \in Threads |-> IdleThread]
    /\ max_retries = 1
    /\ proxy_enabled = TRUE
    /\ ncalls = 0
    /\ nticks = 0
    /\ prev = Summary(IdleThread)
    /\ batch = NoBatch
    /\ maint = NoMaint
    /\ src_size = DefaultPicture
    /\ loader = NoLoader

NextMaint ==
    \/ ClearCache(SweepHours)
    \/ SweepFile(BOOLEAN)
    \/ ClearReturn
    \/ GetCacheStats
    \/ StatFile
    \/ StatsReturn

SpecMaint == InitMaint /\ [][NextMaint]_vars

----------------------------------------------------------------------------
(* clear_cache or get_cache_stats in the caller while another thread of the   *)
(* process is inside load_image, on the same cache directory.                 *)

\* Another thread of the process calls load_image(url)
ThreadLoadImage(t) ==
    /\ t \in Workers
    /\ th[t].pc = "idle"
    /\ batch.pc = "none"
    /\ \E url \in Inputs :
         th' = [th EXCEPT ![t] = Enter(t, url)]
    /\ UNCHANGED <<clock, cache, max_retries, proxy_enabled, ncalls, nticks, prev, batch, maint, src_size, loader>>

\* The files the calls find: fresh ones that do not decode, and old ones
RaceFiles ==
    {NoFile, File("garbage", 100, MaintStart),
     File("good", 100, MaintStart - DefaultMaxAgeHours * 3600 - 1)}

RaceResponses == {[kind |-> "timeout"], Ok(NoHeader, BodySmall, "good")}

RaceOutcomes == Outcomes(RaceResponses)

InitRace ==
    /\ clock = MaintStart
    /\ cache \in {c \in [CachePaths -> RaceFiles] :
                    \A u \in Inputs : ~IsHttpUrl(u) => c[_get_cache_path(u)] = NoFile}
    /\ th = [t \in Threads |-> IdleThread]
    /\ max_retries = 1
    /\ proxy_enabled = TRUE
    /\ ncalls = 0
    /\ nticks = 0
    /\ prev = Summary(IdleThread)
    /\ batch = NoBatch
    /\ maint = NoMaint
    /\ src_size = DefaultPicture
    /\ loader = NoLoader

NextRace ==
    \/ ClearCache({DefaultMaxAgeHours})
    \/ SweepFile(BOOLEAN)
    \/ ClearReturn
    \/ GetCacheStats
    \/ StatFile
    \/ StatsReturn
    \/ \E t \in {1} :
         \/ ThreadLoadImage(t)
         \/ CheckCache(t)
         \/ ReadCache(t, {TRUE})
         \/ Request(t, RaceOutcomes)
         \/ OpenCache(t, {"ok"}, {TRUE})
         \/ Store(t, {"ok"}, {TRUE})

SpecRace == InitRace /\ [][NextRace]_vars

----------------------------------------------------------------------------
(* The threads of the process call get_image_loader *)

InitLoader ==
    /\ clock = 0
    /\ cache = [p \in CachePaths |-> NoFile]
    /\ th = [t \in Threads |-> IdleThread]
    /\ max_retries = MaxRetriesCfg
    /\ proxy_enabled = TRUE
    /\ ncalls = 0
    /\ nticks = 0
    /\ prev = Summary(IdleThread)
    /\ batch = NoBatch
    /\ maint = NoMaint
    /\ src_size = DefaultPicture
    /\ loader = NoLoader

NextLoader ==
    \E t \in Threads :
        \/ GetCall(t)
        \/ GetTest(t)
        \/ GetConstruct(t)
        \/ GetAssign(t)
        \/ GetReturn(t)

SpecLoader == InitLoader /\ [][NextLoader]_vars

----------------------------------------------------------------------------
(* Two load_image calls on a cache file that an earlier run of the process    *)
(* wrote: the process starts when the file has some age, and time passes      *)
(* between the calls.                                                         *)

\* The file of the earlier run
OldFile == File("good", 100, 0)

\* The age of that file when the process starts
StartAges == {0, 1, max_cache_age - 1}

RereadResponses == {[kind |-> "timeout"], Ok(NoHeader, BodySmall, "good")}

RereadOutcomes == Outcomes(RereadResponses)

InitReread ==
    /\ clock \in {OldFile.mtime + a : a \in StartAges}
    /\ cache \in {c \in [CachePaths -> {NoFile, OldFile}] :
                    \A u \in Inputs : ~IsHttpUrl(u) => c[_get_cache_path(u)] = NoFile}
    /\ th = [t \in Threads |-> IdleThread]
    /\ max_retries = 1
    /\ proxy_enabled = TRUE
    /\ ncalls = 0
    /\ nticks = 0
    /\ prev = Summary(IdleThread)
    /\ batch = NoBatch
    /\ maint = NoMaint
    /\ src_size = DefaultPicture
    /\ loader = NoLoader

NextReread ==
    \/ LoadImage({NoTarget})
    \/ LoadImageAgain
    \/ (ncalls = 1 /\ Tick("done"))
    \/ CheckCache(Caller)
    \/ ReadCache(Caller, {TRUE})
    \/ Request(Caller, RereadOutcomes)
    \/ OpenCache(Caller, {"ok"}, {TRUE})
    \/ Store(Caller, {"ok"}, {TRUE})

SpecReread == InitReread /\ [][NextReread]_vars

----------------------------------------------------------------------------
(* One call of the caller, load_image or load_images_batch, with threads that *)
(* keep running: every request, sleep and file operation that has begun ends. *)

LiveInputs == SeqsUpTo({UrlA, UrlB, StrFtp}, MaxBatchLen)

LiveResponses ==
    { [kind |-> "timeout"],
      Ok(NoHeader, BodySmall, "good"),
      Ok(NoHeader, BodySmall, "garbage") }

LiveOutcomes == Outcomes(LiveResponses)

InitLive ==
    /\ clock = 0
    /\ cache \in {c \in [CachePaths -> LeftOver] :
                    \A u \in Inputs : u # UrlA => c[_get_cache_path(u)] = NoFile}
    /\ th = [t \in Threads |-> IdleThread]
    /\ max_retries = BatchRetries
    /\ proxy_enabled = TRUE
    /\ ncalls = 0
    /\ nticks = 0
    /\ prev = Summary(IdleThread)
    /\ batch = NoBatch
    /\ maint = NoMaint
    /\ src_size = DefaultPicture
    /\ loader = NoLoader

\* A step of thread t inside load_image
PipelineStep(t) ==
    \/ CheckCache(t)
    \/ ReadCache(t, BOOLEAN)
    \/ Request(t, LiveOutcomes)
    \/ Sleep(t)
    \/ OpenCache(t, {"ok"}, {TRUE})
    \/ Store(t, {"ok"}, BOOLEAN)

\* A step of worker t of the pool
WorkerStep(t) == Take(t) \/ PipelineStep(t) \/ Finish(t)

\* A step of the caller inside load_image or load_images_batch
CallerStep == PipelineStep(Caller) \/ Collect \/ BatchReturn

NextLive ==
    \/ LoadImage({NoTarget})
    \/ LoadImagesBatch(LiveInputs)
    \/ CallerStep
    \/ \E t \in Workers : WorkerStep(t)

\* A thread that can take its next step takes it: session.get ends (with an
\* answer or at its timeout), time.sleep ends, the file operations end, the
\* pool's threads and the caller's loop over as_completed are scheduled
FairLive ==
    /\ WF_vars(CallerStep)
    /\ \A t \in Workers : WF_vars(WorkerStep(t))

SpecLive == InitLive /\ [][NextLive]_vars /\ FairLive

----------------------------------------------------------------------------
(* preload_images, and a load_image call of the caller after it has returned  *)

MaxSummaries == 2

PreloadWidth == 800
PreloadHeight == 400

\* A summary is a dict; its key 'image' may be missing
NoImageSummary == [title |-> "t"]
ImageSummary(v) == [title |-> "t", image |-> v]
SummaryValues == {NoImageSummary} \cup {ImageSummary(v) : v \in {StrEmpty, StrHttpx, UrlA, UrlB}}
SummaryLists == SeqsUpTo(SummaryValues, MaxSummaries)

\* preload_images, lines 243-247: image_url = summary.get('image');
\* if image_url and image_url.startswith('http'): image_urls.append(image_url)
RECURSIVE image_urls_of(_)
image_urls_of(summaries) ==
    IF summaries = <<>> THEN <<>>
    ELSE LET summary == Head(summaries)
             keep == IF "image" \in DOMAIN summary
                     THEN summary.image # <<>> /\ StartsWith(summary.image, Pfx_http)
                     ELSE FALSE
         IN  (IF keep THEN <<summary.image>> ELSE <<>>) \o image_urls_of(Tail(summaries))

\* preload_images, lines 241-253: nothing is done without a url; otherwise
\* load_images_batch(image_urls, target_size=(800, 400))
PreloadImages(Lists) ==
    /\ th[Caller].pc = "idle"
    /\ batch.pc = "none"
    /\ \E summaries \in Lists :
         LET image_urls == image_urls_of(summaries)
         IN  batch' = IF image_urls = <<>>
                      THEN [NoBatch EXCEPT !.pc = "returned", !.preload = TRUE,
                                           !.summaries = summaries]
                      ELSE [Submit(image_urls, <<PreloadWidth, PreloadHeight>>)
                               EXCEPT !.preload = TRUE, !.summaries = summaries]
    /\ ncalls' = ncalls + 1
    /\ UNCHANGED <<clock, cache, th, max_retries, proxy_enabled, nticks, prev, maint, src_size, loader>>

\* preload_images has returned and the caller calls load_image(url)
LoadImageAfter ==
    /\ th[Caller].pc = "idle"
    /\ batch.pc = "returned"
    /\ \E url \in Inputs :
         th' = [th EXCEPT ![Caller] = Enter(Caller, url)]
    /\ ncalls' = ncalls + 1
    /\ UNCHANGED <<clock, cache, max_retries, proxy_enabled, nticks, prev, batch, maint, src_size, loader>>

PreloadResponses ==
    { [kind |-> "timeout"],
      Ok(NoHeader, BodySmall, "good"),
      Ok(NoHeader, BodySmall, "garbage") }

PreloadOutcomes == Outcomes(PreloadResponses)

InitPreload ==
    /\ clock = 0
    /\ cache = [p \in CachePaths |-> NoFile]
    /\ th = [t \in Threads |-> IdleThread]
    /\ max_retries = 1
    /\ proxy_enabled = TRUE
    /\ ncalls = 0
    /\ nticks = 0
    /\ prev = Summary(IdleThread)
    /\ batch = NoBatch
    /\ maint = NoMaint
    /\ src_size = DefaultPicture
    /\ loader = NoLoader

NextPreload ==
    \/ PreloadImages(SummaryLists)
    \/ \E t \in Workers :
         \/ Take(t)
         \/ Finish(t)
    \/ \E t \in Threads :
         \/ CheckCache(t)
         \/ ReadCache(t, {TRUE})
         \/ Request(t, PreloadOutcomes)
         \/ OpenCache(t, {"ok"}, {TRUE})
         \/ Store(t, {"ok"}, {TRUE})
    \/ Collect
    \/ BatchReturn
    \/ Tick("idle")
    \/ LoadImageAfter

SpecPreload == InitPreload /\ [][NextPreload]_vars

----------------------------------------------------------------------------
(* load_image with a target size, on pictures of several sizes, served from   *)
(* the cache or downloaded.                                                   *)

Pictures ==
    { <<1, 1>>, <<3, 2>>, <<2, 3>>, <<10, 3>>, <<7, 100>>, <<1000, 1>>, <<1, 1000>>,
      <<800, 400>>, <<801, 400>>, <<1600, 1200>>, <<1200, 1600>>, <<1999, 1001>> }

TargetSizes ==
    { <<800, 400>>, <<1, 1>>, <<2, 2>>, <<3, 7>>, <<7, 3>>, <<100, 100>>, <<2000, 5>> }

ThumbOutcomes == Outcomes({Ok(NoHeader, BodySmall, "good"), Ok(NoHeader, BodySmall, "RGBA")})

InitThumb ==
    /\ clock = 0
    /\ cache \in {c \in [CachePaths -> {NoFile, File("good", 100, 0)}] :
                    \A u \in Inputs : u # UrlA => c[_get_cache_path(u)] = NoFile}
    /\ th = [t \in Threads |-> IdleThread]
    /\ max_retries = 1
    /\ proxy_enabled = TRUE
    /\ ncalls = 0
    /\ nticks = 0
    /\ prev = Summary(IdleThread)
    /\ batch = NoBatch
    /\ maint = NoMaint
    /\ src_size \in Pictures
    /\ loader = NoLoader

NextThumb ==
    \/ LoadImage(TargetSizes \cup {NoTarget})
    \/ CheckCache(Caller)
    \/ ReadCache(Caller, {TRUE})
    \/ Request(Caller, ThumbOutcomes)
    \/ OpenCache(Caller, {"ok"}, {TRUE})
    \/ Store(Caller, {"ok"}, {TRUE})

SpecThumb == InitThumb /\ [][NextThumb]_vars

----------------------------------------------------------------------------
(* A caller that calls load_image twice in a row, on an empty cache directory *)

\* The answers of the transport in the model of two calls
SeqResponses ==
    { [kind |-> "timeout"],
      [kind |-> "http404"],
      Ok(NoHeader, BodySmall, "good"),
      Ok(NoHeader, BodySmall, "RGBA"),
      Ok(NoHeader, BodySmall, "garbage") }

SeqOutcomes == Outcomes(SeqResponses)

InitSeq ==
    /\ clock = 0
    /\ cache = [p \in CachePaths |-> NoFile]
    /\ th = [t \in Threads |-> IdleThread]
    /\ max_retries \in 1..MaxRetriesCfg
    /\ proxy_enabled \in BOOLEAN
    /\ ncalls = 0
    /\ nticks = 0
    /\ prev = Summary(IdleThread)
    /\ batch = NoBatch
    /\ maint = NoMaint
    /\ src_size = DefaultPicture
    /\ loader = NoLoader

NextSeq ==
    \/ LoadImage({NoTarget})
    \/ LoadImageAgain
    \/ (ncalls = 1 /\ Tick("done"))
    \/ SetProxy
    \/ CheckCache(Caller)
    \/ ReadCache(Caller, BOOLEAN)
    \/ Request(Caller, SeqOutcomes)
    \/ Sleep(Caller)
    \/ OpenCache(Caller, WriteOutcomes, BOOLEAN)
    \/ Store(Caller, WriteOutcomes, BOOLEAN)

SpecSeq == InitSeq /\ [][NextSeq]_vars

----------------------------------------------------------------------------
(* Properties of one load_image call.  They are stated on the record of the *)
(* call kept in th[t], once the call has returned (pc = "done").            *)

Returned(t) == th[t].pc = "done"

Path(t) == _get_cache_path(th[t].url)

\* The age of the url's cache file when the call began
HadFile(t) == th[t].start.exists
AgeAtStart(t) == th[t].started - th[t].start.mtime

\* Every attempt of the call ended with a timeout or a connection error
OnlyTransient(t) == th[t].kinds # {} /\ th[t].kinds \subseteq {"timeout", "connerr"}

\* The back-off of a call whose n attempts all failed: 2^0, 2^1, ..., 2^(n-2)
BackOff(n) == [i \in 1..(n - 1) |-> 2 ^ (i - 1)]

\* No request follows the last answer: every request but the last was followed by one sleep
NoRetryAfterLast(t) == th[t].requests = Len(th[t].slept) + 1

\* The call has not written the url's cache file: it is as it was, or removed
NotWritten(t) == th[t].writes = 0 /\ cache[Path(t)] \in {th[t].start, NoFile}

\* C1: for any string that does not start with http:// or https://, load_image
\* returns None and issues no network request.
C1_NonHttpIsRejected ==
    \A t \in Threads :
        (th[t].pc # "idle" /\ ~IsHttpUrl(th[t].url)) =>
            /\ th[t].requests = 0
            /\ Returned(t) => th[t].result = "none"

\* C2: in load_images_batch a pipeline that fails or raises gives None for its own
\* url only: every dispatched future still runs to its end and is collected,
\* a url maps to None only when a pipeline of that url failed, and no exception
\* leaves the call.
C2_BatchIsolation ==
    /\ ~batch.raised
    /\ batch.pc = "returned" =>
         /\ \A i \in 1..Len(batch.futures) :
               /\ batch.futures[i].state = "done"
               /\ batch.futures[i].collected
               /\ batch.futures[i].url \in DOMAIN batch.results
         /\ \A u \in DOMAIN batch.results :
               /\ batch.results[u] \in {"image", "none"}
               /\ batch.results[u] = "image" =>
                    \E i \in 1..Len(batch.futures) :
                        batch.futures[i].url = u /\ batch.futures[i].outcome = "image"
               /\ batch.results[u] = "none" =>
                    \E i \in 1..Len(batch.futures) :
                        batch.futures[i].url = u /\ batch.futures[i].outcome \in {"none", "raise"}

C2_Witness ==
    /\ batch.pc = "returned"
    /\ \E i, j \in 1..Len(batch.futures) :
         /\ batch.futures[i].url # batch.futures[j].url
         /\ batch.futures[i].outcome = "raise"
         /\ batch.futures[j].outcome = "image"
         /\ batch.results[batch.futures[i].url] = "none"
         /\ batch.results[batch.futures[j].url] = "image"

\* The strings of a list
Range(q) == {q[i] : i \in 1..Len(q)}

\* C3: the keys of the map load_images_batch returns are exactly the http(s) urls
\* of the input: other strings have no entry, and an empty input gives an empty map.
C3_KeysAreTheHttpUrls ==
    batch.pc = "returned" =>
        DOMAIN batch.results = {u \in Range(batch.input) : IsHttpUrl(u)}

\* C4: when every attempt times out or fails at connection level, the call makes
\* exactly max_retries requests, sleeps 2^i after failed attempt i for
\* i = 0..max_retries-2, does not sleep after the last attempt, and returns None.
C4_TransientRetriesAndBackOff ==
    \A t \in Threads :
        (Returned(t) /\ OnlyTransient(t)) =>
            /\ th[t].requests = max_retries
            /\ th[t].slept = BackOff(max_retries)
            /\ th[t].ended - th[t].started = SumSeq(BackOff(max_retries))
            /\ th[t].result = "none"

C4_Witness ==
    \E t \in Threads :
        /\ Returned(t) /\ OnlyTransient(t)
        /\ ~HadFile(t)
        /\ max_retries = 3
        /\ th[t].requests = 3
        /\ th[t].slept = <<1, 2>>
        /\ th[t].ended - th[t].started = 3

\* C5: an HTTP 404 ends the call at once: no retry and no sleep follow it, the
\* result is None and no cache file is written; a transport that answers 404 is
\* called exactly once.
C5_NotFoundIsNotRetried ==
    \A t \in Threads :
        (Returned(t) /\ "http404" \in th[t].kinds) =>
            /\ NoRetryAfterLast(t)
            /\ th[t].result = "none"
            /\ NotWritten(t)
            /\ th[t].kinds = {"http404"} => (th[t].requests = 1 /\ th[t].slept = <<>>)

C5_Witness ==
    \E t \in Threads :
        /\ Returned(t)
        /\ th[t].kinds = {"http404"}
        /\ th[t].requests = 1
        /\ max_retries = 3
        /\ th[t].result = "none"

\* C6: two load_image calls in a row for the same url, the second within
\* max_cache_age of the first: when the first downloaded the image, it left it in
\* the cache file of the url, and the second is served from that file without any
\* request, so the url is downloaded once.
C6_SecondLoadIsACacheHit ==
    (/\ ncalls = 2 /\ Returned(Caller)
     /\ prev.url = th[Caller].url
     /\ prev.result = "image" /\ ~prev.hit
     /\ th[Caller].started - prev.ended < max_cache_age) =>
        /\ prev.requests >= 1
        /\ prev.writes = 1
        /\ th[Caller].start.exists
        /\ th[Caller].start.mtime = prev.ended
        /\ th[Caller].hit
        /\ th[Caller].requests = 0
        /\ th[Caller].writes = 0
        /\ th[Caller].result = "image"

C6_Witness ==
    /\ ncalls = 2 /\ Returned(Caller)
    /\ prev.url = UrlB /\ th[Caller].url = UrlB
    /\ prev.result = "image" /\ ~prev.hit
    /\ prev.requests = 1
    /\ th[Caller].started - prev.ended = max_cache_age - 1
    /\ th[Caller].hit
    /\ th[Caller].requests = 0

\* C7: a cache file is valid exactly when now - mtime < max_cache_age: a call that
\* finds a file of at least that age goes to the network although the file is
\* there, and when it returns an image the file has been overwritten and is
\* fresh; a call that finds a younger file that decodes is served from it.
C7_ExpiryTriggersRefetch ==
    \A t \in Threads :
        (Returned(t) /\ HadFile(t)) =>
            /\ AgeAtStart(t) >= max_cache_age =>
                 /\ ~th[t].hit
                 /\ th[t].requests >= 1
                 /\ th[t].result = "image" =>
                      /\ cache[Path(t)].exists
                      /\ cache[Path(t)].mtime >= th[t].started
                      /\ cache[Path(t)].len = th[t].data.len
                      /\ _is_cache_valid(Path(t), cache, th[t].ended)
            /\ (AgeAtStart(t) < max_cache_age /\ th[t].start.kind = "good") =>
                 /\ th[t].hit
                 /\ th[t].requests = 0

C7_Witness ==
    \E t \in Threads :
        /\ Returned(t) /\ HadFile(t)
        /\ AgeAtStart(t) = max_cache_age
        /\ th[t].requests = 1
        /\ th[t].result = "image"
        /\ cache[Path(t)].mtime = th[t].started

C9_StreamedOversizeAborts ==
    \A t \in Threads :
        /\ (th[t].requests > 0 /\ th[t].clen <= max_image_size /\ th[t].counted > max_image_size) =>
              /\ "streamed" \in th[t].kinds
              /\ th[t].counted <= max_image_size + ChunkSize
              /\ th[t].read <= th[t].total
              /\ Returned(t)
        /\ (Returned(t) /\ "streamed" \in th[t].kinds) =>
              /\ th[t].counted > max_image_size
              /\ NoRetryAfterLast(t)
              /\ th[t].data = NoData
              /\ th[t].result = "none"
              /\ NotWritten(t)

C9_Witness ==
    \E t \in Threads :
        /\ Returned(t)
        /\ "streamed" \in th[t].kinds
        /\ th[t].read < th[t].total
        /\ th[t].clen = 100
        /\ th[t].requests = 1
        /\ th[t].result = "none"
        /\ ~cache[Path(t)].exists

\* C10: when the response declares a content-length above max_image_size, no
\* chunk of the body is read, nothing is retried, nothing is written to the cache
\* and the call returns None.
C10_DeclaredOversizeAbandoned ==
    \A t \in Threads :
        (th[t].requests > 0 /\ th[t].clen > max_image_size) =>
            /\ Returned(t)
            /\ "declared" \in th[t].kinds
            /\ th[t].read = 0
            /\ th[t].counted = 0
            /\ th[t].data = NoData
            /\ NoRetryAfterLast(t)
            /\ th[t].result = "none"
            /\ NotWritten(t)

C10_Witness ==
    \E t \in Threads :
        /\ Returned(t)
        /\ th[t].clen = max_image_size + 1
        /\ th[t].total > 0
        /\ th[t].read = 0
        /\ th[t].requests = 1
        /\ th[t].result = "none"
        /\ ~cache[Path(t)].exists

\* C11: no failure inside the pipeline of one url (network error, decode error,
\* cache read, write or delete error) leaves load_image as an exception: every
\* call that ends returns an image or None.
C11_NoExceptionEscapes ==
    \A t \in Threads :
        Returned(t) => th[t].result \in {"image", "none"}

\* C12: a cache put is atomic per key: whoever reads the cache file of a key (a
\* concurrent load_image in another worker, or a later call) reads a complete
\* blob, the previous one or the new one, never a partly written file.
C12_ReadersSeeWholeBlobs ==
    \A t \in Threads :
        th[t].blob.exists => th[t].blob.kind # "partial"

\* C13: when writing the downloaded bytes to the cache file fails (the open or the
\* write is refused), load_image still returns the image decoded from the bytes
\* in memory.
C13_WriteFailureKeepsImage ==
    \A t \in Threads :
        (/\ Returned(t)
         /\ th[t].data.kind = "good" /\ th[t].data.len > 0
         /\ th[t].faults \cap {"open_fail", "write_fail"} # {}) =>
            th[t].result = "image"

\* The futures whose load_image is running
InFlight == {i \in 1..Len(batch.futures) : batch.futures[i].state = "running"}

\* C14: at every moment of load_images_batch at most max_workers pipelines are
\* in flight, however many urls were dispatched.
C14_AtMostMaxWorkersInFlight ==
    /\ Cardinality(InFlight) <= max_workers
    /\ \A i \in InFlight : batch.futures[i].worker \in Workers
    /\ \A i, j \in InFlight : batch.futures[i].worker = batch.futures[j].worker => i = j

C14_Witness ==
    /\ batch.pc = "running"
    /\ Len(batch.futures) > max_workers
    /\ Cardinality(InFlight) = max_workers
    /\ \E i \in 1..Len(batch.futures) : batch.futures[i].state = "pending"
    /\ \A t \in Workers : th[t].pc = "request"

\* C15: load_images_batch returns only after every dispatched pipeline has ended:
\* when it returns no worker is inside load_image, no future is pending or
\* running, and the map holds for each dispatched url what a pipeline of that url
\* ended with.
C15_ReturnsAfterAllPipelines ==
    batch.pc = "returned" =>
        /\ \A t \in Workers : th[t].pc = "idle"
        /\ InFlight = {}
        /\ \A i \in 1..Len(batch.futures) : batch.futures[i].state = "done"
        /\ DOMAIN batch.results = {batch.futures[i].url : i \in 1..Len(batch.futures)}
        /\ \A u \in DOMAIN batch.results :
              \E i \in 1..Len(batch.futures) :
                  /\ batch.futures[i].url = u
                  /\ batch.results[u] = Guarded(batch.futures[i].outcome).value

C15_Witness ==
    /\ batch.pc = "returned"
    /\ Len(batch.futures) = 2
    /\ batch.futures[1].url # batch.futures[2].url
    /\ batch.futures[1].outcome = "none"
    /\ batch.futures[2].outcome = "image"
    /\ batch.results[batch.futures[1].url] = "none"
    /\ batch.results[batch.futures[2].url] = "image"

\* The proxy was enabled during the caller's previous call: it fetched a rewritten url
PrevProxied == prev.fetched # prev.url

\* C16: the cache file of a url depends on the url alone, not on the proxy
\* settings: an image downloaded and cached under one proxy setting is served
\* from that file, without any request, by a call for the same url made under the
\* other setting.
C16_CacheKeyIgnoresProxy ==
    (/\ ncalls = 2 /\ Returned(Caller)
     /\ prev.url = th[Caller].url
     /\ prev.result = "image" /\ ~prev.hit
     /\ PrevProxied # proxy_enabled
     /\ th[Caller].started - prev.ended < max_cache_age) =>
        /\ Path(Caller) = _get_cache_path(prev.url)
        /\ th[Caller].start.exists
        /\ Decodes(th[Caller].start.kind)
        /\ th[Caller].start.mtime = prev.ended
        /\ th[Caller].blob = th[Caller].start
        /\ th[Caller].hit
        /\ th[Caller].requests = 0
        /\ th[Caller].fetched = <<>>
        /\ th[Caller].result = "image"

C16_Witness ==
    /\ ncalls = 2 /\ Returned(Caller)
    /\ prev.url = UrlA /\ th[Caller].url = UrlA
    /\ prev.result = "image" /\ ~prev.hit
    /\ prev.fetched = UrlA
    /\ proxy_enabled
    /\ th[Caller].hit
    /\ th[Caller].requests = 0
    /\ th[Caller].result = "image"

\* C17: the image load_image returns is always of mode RGB: an RGBA, LA or P
\* source is converted before it is returned, from the network and from the
\* cache alike, so two loads of one url return the same mode.
C17_AlwaysRGB ==
    /\ \A t \in Threads :
          (Returned(t) /\ th[t].result = "image") => th[t].mode = "RGB"
    /\ (/\ ncalls = 2 /\ Returned(Caller)
        /\ prev.url = th[Caller].url
        /\ prev.result = "image" /\ th[Caller].result = "image") =>
          th[Caller].mode = prev.mode

----------------------------------------------------------------------------
(* Properties of clear_cache and get_cache_stats, stated when the call has    *)
(* returned, against the directory as it was when the call began.             *)

SweepReturned == maint.pc = "returned" /\ maint.op = "clear_cache"
StatsReturned == maint.pc = "returned" /\ maint.op = "get_cache_stats"

\* The files that were older than max_age_hours hours when clear_cache began
Expired == {p \in CachePaths :
              /\ maint.before[p].exists
              /\ maint.current_time - maint.before[p].mtime > maint.max_age_hours * 3600}

IntValue(n) == [type |-> "int", value |-> n]

\* C18: clear_cache(max_age_hours) deletes exactly the cache files older than
\* max_age_hours hours, leaves every younger file as it was, and returns the
\* number of files it removed (stated for sweeps in which no os.remove fails).
C18_SweepRemovesExpiredAndCounts ==
    (SweepReturned /\ maint.failed = {}) =>
        /\ \A p \in CachePaths :
              cache[p] = IF p \in Expired THEN NoFile ELSE maint.before[p]
        /\ maint.ret = IntValue(Cardinality(Expired))

\* C19: in clear_cache an os.remove that fails is skipped: the sweep visits the
\* remaining files, removes every other expired file, counts only the files it
\* removed, and does not raise.
C19_SweepSkipsFailedDeletes ==
    /\ maint.op = "clear_cache" =>
          /\ maint.ret # Raised
          /\ maint.failed # {} => (maint.pc = "sweep" \/ maint.todo = {})
    /\ SweepReturned =>
          /\ maint.todo = {}
          /\ maint.failed \subseteq Expired
          /\ \A p \in CachePaths :
                cache[p] = IF p \in Expired \ maint.failed THEN NoFile ELSE maint.before[p]
          /\ maint.cleared_count = Cardinality(Expired \ maint.failed)

C19_Witness ==
    /\ SweepReturned
    /\ maint.max_age_hours = DefaultMaxAgeHours
    /\ Cardinality(Expired) = 3
    /\ Cardinality(maint.failed) = 1
    /\ maint.cleared_count = 2
    /\ \E p \in CachePaths : ~maint.before[p].exists \/ p \notin Expired

\* The sizes of the files of a directory, added up
RECURSIVE TotalSize(_, _)
TotalSize(files, paths) ==
    IF paths = {} THEN 0
    ELSE LET p == CHOOSE q \in paths : TRUE
         IN  (IF files[p].exists THEN files[p].len ELSE 0) + TotalSize(files, paths \ {p})

\* C20: get_cache_stats returns the number of cache files and the total size of
\* their blobs in bytes, and changes nothing: no file is created, modified or
\* deleted and no mtime changes.
C20_StatsCountsAndBytes ==
    /\ maint.op = "get_cache_stats" => cache = maint.before
    /\ StatsReturned =>
          /\ maint.ret.type = "dict"
          /\ maint.ret.files = Cardinality({p \in CachePaths : maint.before[p].exists})
          /\ maint.ret.size_mb % 100 = 0
          /\ maint.ret.size_mb \div 100 = TotalSize(maint.before, CachePaths)

\* C21: with a target size (w, h), the image load_image returns is at most w wide
\* and h high, is in neither dimension larger than the decoded source, is the
\* source itself when the source fits, and has the aspect ratio of the source up
\* to the rounding of one side to a whole number of pixels; from the cache and
\* from the network alike.
C21_ThumbnailBounds ==
    \A t \in Threads :
        (Returned(t) /\ th[t].result = "image" /\ th[t].target_size # NoTarget) =>
            LET w == th[t].target_size[1]
                h == th[t].target_size[2]
                W == src_size[1]
                H == src_size[2]
                x == th[t].size[1]
                y == th[t].size[2]
            IN  /\ 1 <= x /\ x <= w
                /\ 1 <= y /\ y <= h
                /\ x <= W /\ y <= H
                /\ (W <= w /\ H <= h) => th[t].size = src_size
                /\ (W > w \/ H > h) => (x = w \/ y = h)
                /\ \/ Abs(x * H - y * W) < H
                   \/ Abs(x * H - y * W) < W
                   \/ (x = 1 /\ w * H > W * h)
                   \/ (y = 1 /\ w * H < W * h)

C21_Witness ==
    /\ src_size = <<1999, 1001>>
    /\ \E url \in {UrlA, UrlB} :
         /\ th[Caller].url = url
         /\ Returned(Caller) /\ th[Caller].result = "image"
         /\ th[Caller].hit = (url = UrlA)
         /\ th[Caller].target_size = <<800, 400>>
         /\ th[Caller].size = <<799, 400>>

\* C22: preload_images runs load_images_batch, with target size (800, 400), on
\* exactly the image values of the summaries that are http(s) urls; once it has
\* returned, load_image of a url that it fetched and decoded is served from the
\* cache without a request while the entry is fresh; and without a candidate
\* url it touches neither the network nor the cache.
C22_PreloadWarmsTheCache ==
    (batch.preload /\ batch.pc # "none") =>
        /\ Len(batch.futures) = Len(batch.input)
        /\ \A i \in 1..Len(batch.futures) : IsHttpUrl(batch.futures[i].url)
        /\ \A i \in 1..Len(batch.summaries) :
             ("image" \in DOMAIN batch.summaries[i] /\ IsHttpUrl(batch.summaries[i].image))
                 => batch.summaries[i].image \in Range(batch.input)
        /\ batch.futures # <<>> => batch.target_size = <<PreloadWidth, PreloadHeight>>
        /\ \A t \in Workers : th[t].pc # "idle" => th[t].target_size = batch.target_size
        /\ (batch.pc = "returned" /\ Returned(Caller)
              /\ th[Caller].url \in DOMAIN batch.results
              /\ batch.results[th[Caller].url] = "image"
              /\ th[Caller].started - batch.start_time < max_cache_age)
                 => (th[Caller].hit /\ th[Caller].requests = 0)
        /\ (batch.futures = <<>> /\ th[Caller] = IdleThread) =>
             /\ \A p \in CachePaths : cache[p] = NoFile
             /\ \A t \in Workers : th[t] = IdleThread

\* the url without its leading http:// or https://
SchemeStripped(url) ==
    IF StartsWith(url, Pfx_https_s) THEN SubSeq(url, Len(Pfx_https_s) + 1, Len(url))
    ELSE IF StartsWith(url, Pfx_http_s) THEN SubSeq(url, Len(Pfx_http_s) + 1, Len(url))
    ELSE url

\* C23: the url that is requested is the url given, unchanged, when the proxy is
\* disabled or the url is not an http(s) url; otherwise it is the proxy url made
\* of the url without its scheme, the width and the quality.
C23_ProxyRewrite ==
    \A t \in Threads :
        th[t].requests > 0 =>
            th[t].fetched =
                IF ~proxy_enabled \/ ~IsHttpUrl(th[t].url)
                THEN th[t].url
                ELSE Pfx_https_s \o <<"images.weserv.nl/?url=">> \o SchemeStripped(th[t].url)
                         \o <<"&w=">> \o proxy_width \o <<"&q=">> \o proxy_quality
                         \o <<"&output=webp">>

\* C24: the request of attempt i (from 0) is given the timeout self.timeout + 5 * i:
\* the first exactly self.timeout, every later one more than the one before.
C24_TimeoutGrowsByFive ==
    \A t \in Threads :
        /\ Len(th[t].timeouts) = th[t].requests
        /\ th[t].requests <= max_retries
        /\ \A i \in 1..Len(th[t].timeouts) :
             /\ th[t].timeouts[i] = self_timeout + (i - 1) * 5
             /\ i = 1 => th[t].timeouts[i] = self_timeout
             /\ i > 1 => th[t].timeouts[i] > th[t].timeouts[i - 1]

C24_Witness ==
    /\ max_retries = 3
    /\ Returned(Caller)
    /\ th[Caller].requests = 3
    /\ th[Caller].timeouts = <<20, 25, 30>>

\* C25: a call whose downloaded bytes do not decode returns None and leaves no
\* cache file for the url, and the next load_image of the url makes a request.
C25_UndecodableLeavesNoEntry ==
    /\ \A t \in Threads :
         (Returned(t) /\ Undecodable(th[t])) =>
             /\ th[t].result = "none"
             /\ cache[Path(t)] = NoFile
    /\ (ncalls = 2 /\ Returned(Caller) /\ prev.url = th[Caller].url /\ prev.undecodable) =>
             /\ prev.result = "none"
             /\ ~th[Caller].start.exists
             /\ ~th[Caller].hit
             /\ th[Caller].requests >= 1

\* C26: a call that finds a cache file of at least max_cache_age does not read it
\* and does not remove it: it goes to the network, and for as long as no download
\* has delivered bytes, up to and including a return with None after a failed
\* download, the file is on disk as the call found it.
C26_StaleEntryIsLeftAlone ==
    \A t \in Threads :
        (th[t].pc \notin {"idle", "check"} /\ HadFile(t) /\ AgeAtStart(t) >= max_cache_age) =>
            /\ ~th[t].hit
            /\ ~th[t].corrupt
            /\ Returned(t) => th[t].requests >= 1
            /\ th[t].data = NoData =>
                 /\ th[t].removed = 0
                 /\ th[t].writes = 0
                 /\ cache[Path(t)] = th[t].start
                 /\ Returned(t) => th[t].result = "none"

C26_Witness ==
    /\ Returned(Caller) /\ HadFile(Caller)
    /\ AgeAtStart(Caller) = max_cache_age
    /\ max_retries = 3
    /\ th[Caller].requests = 3
    /\ th[Caller].kinds = {"timeout"}
    /\ th[Caller].result = "none"
    /\ cache[Path(Caller)] = File("good", 100, 0)

\* Worker t is inside a pipeline all of whose attempts so far have timed out
Hung(t) ==
    /\ th[t].pc \in {"request", "sleep"}
    /\ th[t].requests >= 1
    /\ th[t].kinds = {"timeout"}

\* C27: in load_images_batch a pipeline whose attempts all hang until their timeout
\* holds its own worker and no other: while it hangs, a free worker can take the
\* next pending url, a busy one can take its next step and hand in its result;
\* and the hung pipeline makes at most max_retries attempts, attempt i with the
\* timeout self.timeout + 5 * i, and ends with None after the last.
C27_HungPipelineHoldsOneWorker ==
    \A t \in Workers :
        /\ (th[t].pc # "idle" /\ th[t].kinds = {"timeout"}) =>
              /\ th[t].requests <= max_retries
              /\ \A i \in 1..th[t].requests : th[t].timeouts[i] = timeout(i - 1)
              /\ Returned(t) => (th[t].requests = max_retries /\ th[t].result = "none")
        /\ Hung(t) =>
              /\ Cardinality({i \in InFlight : batch.futures[i].worker = t}) = 1
              /\ \A u \in Workers \ {t} :
                    /\ (th[u].pc = "idle"
                          /\ \E i \in 1..Len(batch.futures) : batch.futures[i].state = "pending")
                          => ENABLED Take(u)
                    /\ th[u].pc = "check" => ENABLED CheckCache(u)
                    /\ th[u].pc = "read" => ENABLED ReadCache(u, {TRUE})
                    /\ th[u].pc = "request" => ENABLED Request(u, BatchOutcomes)
                    /\ th[u].pc = "sleep" => ENABLED Sleep(u)
                    /\ th[u].pc = "store" => ENABLED OpenCache(u, {"ok"}, {TRUE})
                    /\ th[u].pc = "write" => ENABLED Store(u, {"ok"}, {TRUE})
                    /\ th[u].pc = "done" => ENABLED Finish(u)

C27_Witness ==
    \E t, u \in Workers, i, j \in 1..Len(batch.futures) :
        /\ t # u /\ i < j
        /\ Hung(t) /\ th[t].pc = "request" /\ th[t].attempt = max_retries - 1
        /\ batch.futures[i].state = "running" /\ batch.futures[i].worker = t
        /\ batch.futures[j].state = "done" /\ batch.futures[j].worker = u
        /\ batch.futures[j].outcome = "image"
        /\ batch.futures[j].collected

\* No call is in progress: no thread is inside load_image and the caller is not
\* inside load_images_batch
NoCallInProgress ==
    /\ \A t \in Threads : th[t].pc \in {"idle", "done"}
    /\ batch.pc \in {"none", "returned"}

\* C28: when every request and every sleep ends, every load_image call that has
\* begun ends, in the caller and in the workers of a batch, and every
\* load_images_batch call that has begun returns: whatever is in progress, a
\* moment follows at which nothing is.
C28_EveryCallEnds == []<>NoCallInProgress

C28_Witness ==
    /\ batch.pc = "returned"
    /\ Len(batch.futures) = 2
    /\ batch.futures[1].outcome = "none"
    /\ batch.futures[2].outcome = "image"
    /\ clock >= SumSeq(BackOff(max_retries))
    /\ \A t \in Workers : th[t].pc = "idle"

\* The ways an attempt ends that end the download: bytes delivered, an HTTP 404,
\* a declared or a streamed size over the cap
FinalKinds == {"ok", "http404", "declared", "streamed"}

\* C29: one load_image call makes at most max_retries requests, one at a time
\* (request k + 1 is made in pass k of the loop, after request k has ended), and
\* none after the first success, 404 or oversize; a call whose attempt k
\* succeeds has made k + 1 requests.
C29_RequestsAreBoundedAndSequential ==
    /\ [](\A t \in Threads :
            /\ th[t].requests <= max_retries
            /\ th[t].kinds \cap FinalKinds # {} =>
                 /\ th[t].pc \notin {"request", "sleep"}
                 /\ th[t].requests = th[t].attempt + 1
                 /\ th[t].requests = Len(th[t].slept) + 1)
    /\ [][\A t \in Threads :
            th'[t].requests # th[t].requests =>
                /\ th'[t].requests = th[t].requests + 1
                /\ th[t].requests = th[t].attempt
                /\ th[t].requests < max_retries
                /\ th[t].kinds \cap FinalKinds = {}]_vars

C29_Witness ==
    /\ max_retries = 3
    /\ Returned(Caller)
    /\ th[Caller].kinds = {"timeout", "ok"}
    /\ th[Caller].attempt = 1
    /\ th[Caller].requests = 2
    /\ th[Caller].result = "image"

\* Every attempt of the call failed in a way that is retried, at least one of them
\* with an HTTP error status other than 404
HttpErrorsOnly(t) ==
    /\ "http500" \in th[t].kinds
    /\ th[t].kinds \subseteq {"http500", "timeout", "connerr"}

\* C30: an HTTP error status other than 404 is retried like a timeout: a call
\* whose attempts all fail that way makes max_retries requests with the back-off
\* 2^0, 2^1, ... between them, then returns None, and has written no cache file.
C30_OtherHttpErrorsAreRetried ==
    \A t \in Threads :
        /\ (HttpErrorsOnly(t) /\ ~Returned(t)) => th[t].pc \in {"request", "sleep"}
        /\ (HttpErrorsOnly(t) /\ Returned(t)) =>
              /\ th[t].requests = max_retries
              /\ th[t].slept = BackOff(max_retries)
              /\ th[t].ended - th[t].started = SumSeq(BackOff(max_retries))
              /\ th[t].result = "none"
              /\ th[t].data = NoData
              /\ NotWritten(t)

C30_Witness ==
    /\ max_retries = 3
    /\ Returned(Caller)
    /\ th[Caller].kinds = {"http500"}
    /\ th[Caller].requests = 3
    /\ th[Caller].slept = <<1, 2>>
    /\ th[Caller].result = "none"
    /\ HadFile(Caller) /\ cache[Path(Caller)] = th[Caller].start

\* Worker t has the cache file of its url open for writing (lines 177-178)
Writing(t) == th[t].pc = "write"

\* C31: when load_image runs in several workers for one url, the cache file of
\* the url is never open for writing in two workers at once, and it is never
\* removed while a worker has it open.
C31_OneWriterNoDeleteUnderIt ==
    /\ \A t, u \in Workers :
         (t # u /\ Writing(t) /\ Writing(u)) => Path(t) # Path(u)
    /\ \A t \in Workers : Writing(t) => cache[Path(t)].exists

\* C32: a cache hit leaves the file and its mtime as they were, so reading an
\* entry does not prolong it: after a first call served from the file written
\* at OldFile.mtime, a second call of the url is served from it exactly when it
\* starts less than max_cache_age after that mtime, however recent the first
\* read was.
C32_NoSlidingExpiry ==
    /\ (Returned(Caller) /\ th[Caller].hit) => cache[Path(Caller)] = th[Caller].start
    /\ (ncalls = 2 /\ th[Caller].pc \notin {"idle", "check"} /\ prev.hit
          /\ prev.url = th[Caller].url) =>
            /\ th[Caller].start = OldFile
            /\ Returned(Caller) =>
                 (th[Caller].hit <=> th[Caller].started - OldFile.mtime < max_cache_age)
            /\ (Returned(Caller) /\ ~th[Caller].hit) => th[Caller].requests >= 1

C32_Witness ==
    /\ ncalls = 2 /\ Returned(Caller)
    /\ prev.hit /\ prev.url = th[Caller].url
    /\ prev.ended = OldFile.mtime + 1
    /\ th[Caller].started - OldFile.mtime = max_cache_age
    /\ th[Caller].started - prev.ended < max_cache_age
    /\ ~th[Caller].hit
    /\ th[Caller].requests = 1

\* C33: clear_cache and get_cache_stats end without an exception also when a
\* file of their directory listing is removed by another thread before they
\* come to it.
C33_MaintenanceSurvivesVanishedFiles ==
    maint.pc = "returned" => maint.ret # Raised

\* C34: get_image_loader constructs at most one ImageLoader in the process, and
\* every call returns that one instance, first calls made by several threads at
\* once included.
C34_OneLoaderPerProcess ==
    /\ loader.made <= 1
    /\ Cardinality(loader.returned) <= 1
    /\ 0 \notin loader.returned

\* C35: the cap is inclusive.  A response whose body is exactly max_image_size
\* bytes, declared by content-length and counted while streaming, is delivered
\* whole, and when the file system carries out the write it is cached and the
\* image returned; a declared or a counted size of max_image_size + 1 is
\* rejected: no bytes are delivered, None is returned, nothing is cached.
C35_CapIsInclusive ==
    \A t \in Threads :
        /\ th[t].data # NoData =>
              /\ th[t].data.len <= max_image_size
              /\ th[t].clen <= max_image_size
        /\ (th[t].requests > 0 /\ th[t].clen = max_image_size /\ th[t].total = FullChunks) =>
              /\ "ok" \in th[t].kinds
              /\ th[t].counted = max_image_size
              /\ th[t].data.len = max_image_size
              /\ (Returned(t) /\ th[t].faults = {}) =>
                    /\ th[t].result = "image"
                    /\ cache[Path(t)] = File(th[t].data.kind, max_image_size, th[t].ended)
        /\ (th[t].requests > 0
              /\ (th[t].clen = max_image_size + 1 \/ th[t].counted = max_image_size + 1)) =>
              /\ th[t].kinds \cap {"declared", "streamed"} # {}
              /\ th[t].data = NoData
              /\ Returned(t)
              /\ th[t].result = "none"
              /\ NotWritten(t)

C35_Witness ==
    /\ Returned(Caller)
    /\ th[Caller].clen = max_image_size
    /\ th[Caller].counted = max_image_size
    /\ th[Caller].result = "image"
    /\ cache[Path(Caller)].exists
    /\ cache[Path(Caller)].len = max_image_size

\* The files clear_cache has removed so far
Swept == {p \in CachePaths : maint.before[p].exists /\ ~cache[p].exists}

\* C36: clear_cache(max_age_hours) with max_age_hours >= 24 removes no file that
\* load_image would serve: every file it removes has an mtime at least
\* max_cache_age before the sweep's current_time, and every file that
\* _is_cache_valid accepts is left as it was.
C36_SweepSparesServableEntries ==
    (maint.op = "clear_cache" /\ maint.max_age_hours >= 24) =>
        /\ \A p \in Swept :
              /\ ~_is_cache_valid(p, maint.before, maint.current_time)
              /\ maint.current_time - maint.before[p].mtime >= max_cache_age
        /\ \A p \in CachePaths :
              _is_cache_valid(p, maint.before, maint.current_time) => cache[p] = maint.before[p]

C36_Witness ==
    /\ SweepReturned
    /\ maint.max_age_hours = 24
    /\ \E p \in Swept : maint.current_time - maint.before[p].mtime = max_cache_age + 1
    /\ \E p \in CachePaths :
         /\ _is_cache_valid(p, cache, clock)
         /\ clock - cache[p].mtime = 1

====
